---- MODULE Spec2Model ----
(***************************************************************************)
(* Session-scoped real-time synchronisation pipeline of the to-do app:     *)
(* the SQLite store (tables todos and sessions), TodoService               *)
(* (GetMVCBySessionID, saveMVCToDB and the pure list transitions), the     *)
(* mutation handlers, the NATS relay and the SSE stream handler            *)
(* TodosUpdates.                                                           *)
(*                                                                         *)
(* Every SQL statement is one atomic step (SQLite autocommit): the         *)
(* repositories call store.Queries(), never a transaction-bound handle,    *)
(* and nothing calls SQLiteStore.WithinTransaction.                        *)
(* Texts are small naturals: 1..5 are the five default texts, 6 is a text  *)
(* typed by the user, 0 is the empty string.                               *)
(***************************************************************************)
EXTENDS Integers, Sequences, FiniteSets, TLC

\* ------------------------------------------------------------------ bounds
\* handler requests started in one run
MaxOps == 2
\* the same, in the runs with two streams and in the runs over every mutation kind
MaxOpsOne == 1
\* seconds the wall clock (CURRENT_TIMESTAMP) advances in one run
MaxClock == 1
\* injected failures (an SQL statement or a client write) in one run
MaxFailures == 1
\* how many of the five default todos of resetMVC the model keeps
SeedLen == 2
\* how many times Notify is called where a buffer is to overflow
MaxPublishes == 66
\* the longest list and the number of texts the transitions are tried on
MaxLen == 3
MaxText == 2
\* the longest list of options Notify is tried on
MaxOpts == 3
\* the most writes fn makes through one transaction
MaxWrites == 2
\* the most messages published to a stream that parses them
MaxPublished == 3

\* ------------------------------------------------------------- the universe
Sessions == {"s1", "s2"}
Handlers == {"h1", "h2"}
Streams == {"t1", "t2", "t3"}
Procs == Handlers \cup Streams
\* run of cmd/server: "serving", "shutdown" (srv.Shutdown under way) or "released"
\* (application.Close has run)
Server == "main"

\* the session id in the cookie of a request: t3 belongs to another browser
SessionOf(p) == IF p = "t3" THEN "s2" ELSE "s1"
StreamsOf(s) == {t \in Streams : SessionOf(t) = s}

TodoViewModeAll == 0
TodoViewModeActive == 1
TodoViewModeCompleted == 2

\* capacity of the channel handed to ChanSubscribe
MsgChanCap == 64

NoSession == [valid |-> FALSE, mode |-> 0, editing_idx |-> 0]
NoMVC == [Todos |-> << >>, Mode |-> TodoViewModeAll, EditingIdx |-> -1]
NoOp == [kind |-> "none", idx |-> 0, mode |-> 0, text |-> 0, isInt |-> TRUE]

VARIABLES
    todos,      \* table todos: the rows in rowid (insertion) order
    sessions,   \* table sessions: session id -> row (mode, editing_idx) or NoSession
    clock,      \* CURRENT_TIMESTAMP, in seconds
    pc,         \* position of every handler request and every stream
    loc,        \* locals of every handler request and every stream
    msgChan,    \* per stream: the buffered channel of its subscription
    subscribed, \* per stream: its subscription is registered with the relay
    cancelled,  \* per stream: the request context is done
    nops,       \* handler requests started so far
    failures,   \* failures injected so far
    hist,       \* ghost: per session, the states handed to completed saves, in order
    replay,     \* ghost: per session, the transitions of the successful mutations
                \* replayed in memory from the default todos
    obs         \* ghost: per process, what the claims observe of it

vars == << todos, sessions, clock, pc, loc, msgChan, subscribed, cancelled,
           nops, failures, hist, replay, obs >>

\* ------------------------------------------------------- pure list transitions
Todo(text, completed) == [Text |-> text, Completed |-> completed]

\* TodoService.resetMVC
resetMVC(mvc) ==
    [Todos |-> SubSeq(<< Todo(1, TRUE), Todo(2, FALSE), Todo(3, FALSE),
                         Todo(4, FALSE), Todo(5, FALSE) >>, 1, SeedLen),
     Mode |-> TodoViewModeAll,
     EditingIdx |-> -1]

DefaultTodos == resetMVC(NoMVC).Todos

\* a toggle that inverts each item when the index is negative
ToggleTodoInverts(mvc, index) ==
    IF index < 0
    THEN [mvc EXCEPT !.Todos =
            [k \in 1..Len(mvc.Todos) |-> [mvc.Todos[k] EXCEPT !.Completed = ~@]]]
    ELSE IF index < Len(mvc.Todos)
    THEN [mvc EXCEPT !.Todos[index + 1].Completed = ~mvc.Todos[index + 1].Completed]
    ELSE mvc

\* TodoService.ToggleTodo
ToggleTodo(mvc, index) ==
    IF index < 0
    THEN LET setCompletedTo == \E k \in 1..Len(mvc.Todos) : ~mvc.Todos[k].Completed
         IN [mvc EXCEPT !.Todos =
                [k \in 1..Len(mvc.Todos) |-> [mvc.Todos[k] EXCEPT !.Completed = setCompletedTo]]]
    ELSE IF index < Len(mvc.Todos)
    THEN [mvc EXCEPT !.Todos[index + 1].Completed = ~mvc.Todos[index + 1].Completed]
    ELSE mvc

\* an edit that puts the new item at the head of the list
EditTodoPrepends(mvc, index, text) ==
    LET edited ==
            IF index >= 0 /\ index < Len(mvc.Todos)
            THEN [mvc EXCEPT !.Todos[index + 1].Text = text]
            ELSE IF index < 0
            THEN [mvc EXCEPT !.Todos = << Todo(text, FALSE) >> \o mvc.Todos]
            ELSE mvc
    IN [edited EXCEPT !.EditingIdx = -1]

\* TodoService.EditTodo
EditTodo(mvc, index, text) ==
    LET edited ==
            IF index >= 0 /\ index < Len(mvc.Todos)
            THEN [mvc EXCEPT !.Todos[index + 1].Text = text]
            ELSE IF index < 0
            THEN [mvc EXCEPT !.Todos = Append(mvc.Todos, Todo(text, FALSE))]
            ELSE mvc
    IN [edited EXCEPT !.EditingIdx = -1]

\* a delete that, with a negative index, removes the items not completed
DeleteTodoKeepsCompleted(mvc, index) ==
    IF index >= 0 /\ index < Len(mvc.Todos)
    THEN [mvc EXCEPT !.Todos =
            SubSeq(mvc.Todos, 1, index) \o SubSeq(mvc.Todos, index + 2, Len(mvc.Todos))]
    ELSE IF index < 0
    THEN [mvc EXCEPT !.Todos = SelectSeq(mvc.Todos, LAMBDA t : t.Completed)]
    ELSE mvc

\* a delete that takes an index beyond the end for the last item
DeleteTodoClamps(mvc, index) ==
    IF index >= 0 /\ Len(mvc.Todos) > 0
    THEN LET i == IF index < Len(mvc.Todos) THEN index ELSE Len(mvc.Todos) - 1
         IN [mvc EXCEPT !.Todos =
                SubSeq(mvc.Todos, 1, i) \o SubSeq(mvc.Todos, i + 2, Len(mvc.Todos))]
    ELSE IF index < 0
    THEN [mvc EXCEPT !.Todos = SelectSeq(mvc.Todos, LAMBDA t : ~t.Completed)]
    ELSE mvc

\* a delete that removes the item after the one asked for
DeleteTodoOffByOne(mvc, index) ==
    IF index >= 0 /\ index < Len(mvc.Todos)
    THEN [mvc EXCEPT !.Todos =
            SubSeq(mvc.Todos, 1, index + 1) \o SubSeq(mvc.Todos, index + 3, Len(mvc.Todos))]
    ELSE IF index < 0
    THEN [mvc EXCEPT !.Todos = SelectSeq(mvc.Todos, LAMBDA t : ~t.Completed)]
    ELSE mvc

\* TodoService.DeleteTodo
DeleteTodo(mvc, index) ==
    IF index >= 0 /\ index < Len(mvc.Todos)
    THEN [mvc EXCEPT !.Todos =
            SubSeq(mvc.Todos, 1, index) \o SubSeq(mvc.Todos, index + 2, Len(mvc.Todos))]
    ELSE IF index < 0
    THEN [mvc EXCEPT !.Todos = SelectSeq(mvc.Todos, LAMBDA t : ~t.Completed)]
    ELSE mvc

\* TodoService.SetMode
SetMode(mvc, mode) == [mvc EXCEPT !.Mode = mode]

\* TodoService.StartEditing
StartEditing(mvc, index) == [mvc EXCEPT !.EditingIdx = index]

\* TodoService.CancelEditing
CancelEditing(mvc) == [mvc EXCEPT !.EditingIdx = -1]

\* The transition a handler applies between GetSessionMVC and SaveMVC.
ApplyOp(mvc, op) ==
    CASE op.kind = "toggle" -> ToggleTodo(mvc, op.idx)
      [] op.kind = "edit" -> EditTodo(mvc, op.idx, op.text)
      [] op.kind = "delete" -> DeleteTodo(mvc, op.idx)
      [] op.kind = "reset" -> resetMVC(mvc)
      [] op.kind = "mode" -> SetMode(mvc, op.mode)
      [] op.kind = "startEdit" -> StartEditing(mvc, op.idx)
      [] op.kind = "cancelEdit" -> CancelEditing(mvc)
      [] OTHER -> mvc

\* --------------------------------------------------------------- the store
\* rows of `rows` created at second c, c - 1, ..., 0, newest second first; rows of
\* one second keep their rowid order
RECURSIVE OrderByCreatedAtDesc(_, _)
OrderByCreatedAtDesc(rows, c) ==
    IF c < 0 THEN << >>
    ELSE SelectSeq(rows, LAMBDA r : r.created_at = c) \o OrderByCreatedAtDesc(rows, c - 1)

\* queries.sql GetTodosByUser: SELECT * FROM todos WHERE user_id = ? ORDER BY created_at DESC
GetTodosByUser(userID) ==
    OrderByCreatedAtDesc(SelectSeq(todos, LAMBDA r : r.user_id = userID), clock)

\* queries.sql CreateTodo: INSERT INTO todos (id, user_id, task, completed);
\* created_at defaults to CURRENT_TIMESTAMP
CreateTodo(userID, todo) ==
    Append(todos, [user_id |-> userID, task |-> todo.Text,
                   completed |-> IF todo.Completed THEN 1 ELSE 0,
                   created_at |-> clock])

\* a delete without the WHERE clause
DeleteAllTodos(userID) == << >>

\* queries.sql DeleteAllTodosByUser: DELETE FROM todos WHERE user_id = ?
DeleteAllTodosByUser(userID) == SelectSeq(todos, LAMBDA r : r.user_id # userID)

\* queries.sql GetSession: SELECT * FROM sessions WHERE id = ?
GetSession(sessionID) == sessions[sessionID]

\* queries.sql UpsertSession
UpsertSession(sessionID, mvc) ==
    [sessions EXCEPT ![sessionID] =
        [valid |-> TRUE, mode |-> mvc.Mode, editing_idx |-> mvc.EditingIdx]]

\* GetMVCBySessionID, the conversion of the rows read: Text = Task, Completed = (completed = 1)
RowsToTodos(dbTodos) ==
    [k \in 1..Len(dbTodos) |-> Todo(dbTodos[k].task, dbTodos[k].completed = 1)]

\* GetMVCBySessionID, the view state: the defaults unless GetSession returned a row
ViewState(session, err) ==
    IF ~err /\ session.valid
    THEN [Mode |-> session.mode, EditingIdx |-> session.editing_idx]
    ELSE [Mode |-> TodoViewModeAll, EditingIdx |-> -1]

\* what a load of session s that runs alone returns from the rows as they are
Persisted(s) ==
    LET v == ViewState(GetSession(s), FALSE)
    IN [Todos |-> RowsToTodos(GetTodosByUser(s)), Mode |-> v.Mode, EditingIdx |-> v.EditingIdx]

\* what GetMVCBySessionID returns to a caller that runs alone
LoadAlone(s) == IF Len(Persisted(s).Todos) = 0 THEN resetMVC(Persisted(s)) ELSE Persisted(s)

\* Persisted, with the sessions table as it is after the step being taken
PersistedWith(sess, s) ==
    LET v == ViewState(sess[s], FALSE)
    IN [Todos |-> RowsToTodos(GetTodosByUser(s)), Mode |-> v.Mode, EditingIdx |-> v.EditingIdx]

\* ------------------------------------------------------------ initial state
\* subj: the subject of the nats.Msg that carries it; id: the number of the Notify
\* call that made it (0: made by a handler)
\* malformed: the payload is not the JSON of an UpdateMessage
NoMsg == [RefreshTodos |-> FALSE, Toast |-> "", persisted |-> FALSE, ver |-> 0,
          subj |-> << >>, id |-> 0, malformed |-> FALSE]

\* tx: the *sql.Tx of WithinTransaction (open, the rows written through it, whether
\* Commit and Rollback were called); fnErr: what fn returned ("none" before it
\* returns); ret: what WithinTransaction returned ("none" before it returns)
NoTx == [open |-> FALSE, writes |-> << >>, committed |-> FALSE, rolledBack |-> FALSE]

InitLoc ==
    [sid |-> "s1", op |-> NoOp, dbTodos |-> << >>, mvc |-> NoMVC, i |-> 0,
     seeding |-> FALSE, phase |-> "none", msg |-> NoMsg, opts |-> << >>,
     tx |-> NoTx, fnErr |-> "none", ret |-> "none"]

\* the locals of p before it has done anything: sessionID from RequireSession
LocOf(p) == [InitLoc EXCEPT !.sid = SessionOf(p)]

InitObs ==
    [resp |-> 0, npub |-> 0, saveFailed |-> FALSE, pre |-> NoMVC,
     hasLoaded |-> FALSE, loaded |-> NoMVC, hasSaved |-> FALSE, saved |-> NoMVC, ver |-> 0,
     hasInit |-> FALSE, initPush |-> NoMVC, hasRef |-> FALSE, refPush |-> NoMVC,
     refVer |-> 0, everSub |-> FALSE, unsubs |-> 0, late |-> FALSE, latePush |-> FALSE,
     pushFailed |-> FALSE, owesRef |-> FALSE, owesToast |-> FALSE,
     due |-> {}, fullAt |-> {}, got |-> << >>, missedVer |-> 0,
     errs |-> 0, subFailed |-> FALSE, parseErrs |-> 0]

Init ==
    /\ todos = << >>
    /\ sessions = [s \in Sessions |-> NoSession]
    /\ clock = 0
    /\ pc = [p \in Procs \cup {Server} |->
                IF p = Server THEN "serving" ELSE IF p \in Handlers THEN "idle" ELSE "closed"]
    /\ loc = [p \in Procs |-> LocOf(p)]
    /\ msgChan = [t \in Streams |-> << >>]
    /\ subscribed = [t \in Streams |-> FALSE]
    /\ cancelled = [t \in Streams |-> FALSE]
    /\ nops = 0
    /\ failures = 0
    /\ hist = [s \in Sessions |-> << >>]
    /\ replay = [s \in Sessions |-> resetMVC(NoMVC)]
    /\ obs = [p \in Procs |-> InitObs]

\* every list of at most MaxLen todos with texts 1..MaxText
TodoLists ==
    UNION { [1..n -> [Text : 1..MaxText, Completed : BOOLEAN]] : n \in 0..MaxLen }

\* a TodoService transition is about to be called on any such list, in mode All,
\* with no item or item 1 being edited
InitTransitions ==
    /\ todos = << >>
    /\ sessions = [s \in Sessions |-> NoSession]
    /\ clock = 0
    /\ pc = [p \in Procs \cup {Server} |->
                IF p = Server THEN "serving" ELSE IF p \in Handlers THEN "idle" ELSE "closed"]
    /\ \E l \in TodoLists : \E e \in {-1, 1} :
            loc = [p \in Procs |->
                    IF p = "h1"
                    THEN [LocOf(p) EXCEPT !.mvc = [Todos |-> l, Mode |-> TodoViewModeAll,
                                                   EditingIdx |-> e]]
                    ELSE LocOf(p)]
    /\ msgChan = [t \in Streams |-> << >>]
    /\ subscribed = [t \in Streams |-> FALSE]
    /\ cancelled = [t \in Streams |-> FALSE]
    /\ nops = 0
    /\ failures = 0
    /\ hist = [s \in Sessions |-> << >>]
    /\ replay = [s \in Sessions |-> resetMVC(NoMVC)]
    /\ obs = [p \in Procs |-> InitObs]

\* ------------------------------------------------------------ the wall clock
\* CURRENT_TIMESTAMP moves to the next second
Tick ==
    /\ clock < MaxClock
    /\ clock' = clock + 1
    /\ UNCHANGED << todos, sessions, pc, loc, msgChan, subscribed, cancelled,
                    nops, failures, hist, replay, obs >>

\* --------------------------------------------------------- mutation handlers
Op(kind, idx, mode, text, isInt) ==
    [kind |-> kind, idx |-> idx, mode |-> mode, text |-> text, isInt |-> isInt]

\* a SaveEdit handler without the return on an empty input
RejectedAcceptsEmpty(op) ==
    \/ op.kind \in {"toggle", "startEdit", "edit", "delete", "mode"} /\ ~op.isInt
    \/ op.kind = "mode" /\ (op.mode < TodoViewModeAll \/ op.mode > TodoViewModeCompleted)

\* a SetMode handler without the range check on mode
RejectedNoRange(op) ==
    \/ op.kind = "edit" /\ op.text = 0
    \/ op.kind \in {"toggle", "startEdit", "edit", "delete", "mode"} /\ ~op.isInt

\* RequireIntParam / strconv.Atoi on the URL parameter, and SetMode's range check;
\* SaveEdit returns before anything else when the input is empty
Rejected(op) ==
    \/ op.kind = "edit" /\ op.text = 0
    \/ op.kind \in {"toggle", "startEdit", "edit", "delete", "mode"} /\ ~op.isInt
    \/ op.kind = "mode" /\ (op.mode < TodoViewModeAll \/ op.mode > TodoViewModeCompleted)

\* the status a rejected request answers with: SaveEdit with an empty input writes
\* nothing (200), every other rejection is http.StatusBadRequest
RejectStatus(op) == IF op.kind = "edit" /\ op.text = 0 THEN 200 ELSE 400

\* a handler is entered with a request
HandlerStart(h, op, max) ==
    /\ pc[h] = "idle"
    /\ nops < max
    /\ nops' = nops + 1
    /\ IF Rejected(op)
       THEN /\ obs' = [obs EXCEPT ![h] = [InitObs EXCEPT !.resp = RejectStatus(op)]]
            /\ UNCHANGED << pc, loc >>
       ELSE /\ pc' = [pc EXCEPT ![h] = "getTodos"]
            /\ loc' = [loc EXCEPT ![h] = [LocOf(h) EXCEPT !.op = op, !.phase = "handler"]]
            /\ obs' = [obs EXCEPT ![h] = InitObs]
    /\ UNCHANGED << todos, sessions, clock, msgChan, subscribed, cancelled,
                    failures, hist, replay >>

\* a handler that goes on to notifyUpdate although the load or the save failed
HandlerErrorNotifies(h, o) ==
    /\ pc' = [pc EXCEPT ![h] = "notify"]
    /\ loc' = loc
    /\ obs' = [obs EXCEPT ![h] = [o EXCEPT !.hasLoaded = FALSE, !.loaded = NoMVC]]

\* http.Error(w, err.Error(), http.StatusInternalServerError); return
HandlerError(h, o) ==
    /\ pc' = [pc EXCEPT ![h] = "idle"]
    /\ loc' = [loc EXCEPT ![h] = LocOf(h)]
    /\ obs' = [obs EXCEPT ![h] = [o EXCEPT !.resp = 500, !.hasLoaded = FALSE,
                                             !.loaded = NoMVC]]

\* ------------------------------------------ GetMVCBySessionID and saveMVCToDB
DbStates == {"getTodos", "getSession", "delete", "insert", "upsert"}
SaveStates == {"delete", "insert", "upsert"}

\* the request context of a stream is done: database/sql refuses the statement
CtxDone(p) == p \in Streams /\ cancelled[p]

\* GetMVCBySessionID: dbTodos, err := s.todoRepo.GetTodosByUser(ctx, sessionID)
GetTodosStep(p) ==
    /\ pc[p] = "getTodos"
    /\ ~CtxDone(p)
    /\ pc' = [pc EXCEPT ![p] = "getSession"]
    /\ loc' = [loc EXCEPT ![p].dbTodos = GetTodosByUser(loc[p].sid)]
    /\ UNCHANGED << todos, sessions, clock, msgChan, subscribed, cancelled,
                    nops, failures, hist, replay, obs >>

\* GetMVCBySessionID returns mvc: a handler applies its transition and calls SaveMVC,
\* a stream goes on to push the state
LoadReturn(p, mvc, sess) ==
    IF p \in Handlers
    THEN /\ pc' = [pc EXCEPT ![p] = "delete"]
         /\ loc' = [loc EXCEPT ![p].mvc = ApplyOp(mvc, loc[p].op), ![p].dbTodos = << >>,
                               ![p].seeding = FALSE, ![p].i = 1]
         /\ obs' = [obs EXCEPT ![p].hasLoaded = TRUE, ![p].loaded = mvc,
                               ![p].pre = PersistedWith(sess, loc[p].sid)]
    ELSE /\ pc' = [pc EXCEPT ![p] = "push"]
         /\ loc' = [loc EXCEPT ![p].mvc = mvc, ![p].dbTodos = << >>,
                               ![p].seeding = FALSE, ![p].i = 1]
         /\ obs' = [obs EXCEPT ![p].hasLoaded = TRUE, ![p].loaded = mvc]

\* GetMVCBySessionID from GetSession on: the view state, then either the default todos
\* are saved (no rows were read) or the rows read are converted. err: GetSession failed.
GetSessionResult(p, err) ==
    LET v == ViewState(GetSession(loc[p].sid), err)
        mvc == [Todos |-> RowsToTodos(loc[p].dbTodos), Mode |-> v.Mode,
                EditingIdx |-> v.EditingIdx]
    IN IF Len(loc[p].dbTodos) = 0
       THEN /\ pc' = [pc EXCEPT ![p] = "delete"]
            /\ loc' = [loc EXCEPT ![p].mvc = resetMVC(mvc), ![p].seeding = TRUE, ![p].i = 1]
            /\ obs' = [obs EXCEPT ![p].pre = Persisted(loc[p].sid)]
       ELSE LoadReturn(p, mvc, sessions)

GetSessionStep(p) ==
    /\ pc[p] = "getSession"
    /\ ~CtxDone(p)
    /\ GetSessionResult(p, FALSE)
    /\ UNCHANGED << todos, sessions, clock, msgChan, subscribed, cancelled,
                    nops, failures, hist, replay >>

\* saveMVCToDB: s.todoRepo.DeleteAllTodosByUser(ctx, sessionID)
DeleteStep(p) ==
    /\ pc[p] = "delete"
    /\ ~CtxDone(p)
    /\ todos' = DeleteAllTodosByUser(loc[p].sid)
    /\ pc' = [pc EXCEPT ![p] = IF Len(loc[p].mvc.Todos) = 0 THEN "upsert" ELSE "insert"]
    /\ obs' = [obs EXCEPT ![p].hasLoaded = FALSE, ![p].loaded = NoMVC]
    /\ UNCHANGED << sessions, clock, loc, msgChan, subscribed, cancelled,
                    nops, failures, hist, replay >>

\* saveMVCToDB: one turn of the loop over mvc.Todos, s.todoRepo.CreateTodo
InsertStep(p) ==
    /\ pc[p] = "insert"
    /\ ~CtxDone(p)
    /\ todos' = CreateTodo(loc[p].sid, loc[p].mvc.Todos[loc[p].i])
    /\ loc' = [loc EXCEPT ![p].i = loc[p].i + 1]
    /\ pc' = [pc EXCEPT ![p] = IF loc[p].i = Len(loc[p].mvc.Todos) THEN "upsert" ELSE "insert"]
    /\ UNCHANGED << sessions, clock, msgChan, subscribed, cancelled,
                    nops, failures, hist, replay, obs >>

\* SaveMVC returned nil to a handler: next it notifies
SaveReturn(h, ver) ==
    /\ pc' = [pc EXCEPT ![h] = "notify"]
    /\ loc' = loc
    /\ obs' = [obs EXCEPT ![h].hasSaved = TRUE, ![h].saved = loc[h].mvc,
                          ![h].ver = ver, ![h].pre = NoMVC]

\* saveMVCToDB: s.sessionRepo.UpsertSession, and the return of nil
UpsertStep(p) ==
    /\ pc[p] = "upsert"
    /\ ~CtxDone(p)
    /\ sessions' = UpsertSession(loc[p].sid, loc[p].mvc)
    /\ hist' = [hist EXCEPT ![loc[p].sid] = Append(@, loc[p].mvc)]
    /\ IF loc[p].seeding
       THEN /\ LoadReturn(p, loc[p].mvc, sessions')
            /\ UNCHANGED replay
       ELSE /\ SaveReturn(p, Len(hist'[loc[p].sid]))
            /\ replay' = [replay EXCEPT ![loc[p].sid] = ApplyOp(@, loc[p].op)]
    /\ UNCHANGED << todos, clock, msgChan, subscribed, cancelled, nops, failures >>

\* ----------------------------------------------------------------- the relay
\* subject returns the NATS subject for a session
subject(sessionID) == << "todos.updates.", sessionID >>

WithRefresh == [opt |-> "refresh", msg |-> ""]
WithToast(msg) == [opt |-> "toast", msg |-> msg]

\* the toast messages of the handlers; "" stands for a message without toast (nil)
ToastReset == "Todos reset"
ToastUpdated == "Todo updated"
ToastCreated == "Todo created"
ToastDeleted == "Todo deleted"

\* a composer in which WithRefresh flips RefreshTodos
RECURSIVE ApplyOptsFlips(_, _)
ApplyOptsFlips(msg, opts) ==
    IF opts = << >> THEN msg
    ELSE LET o == Head(opts)
             m == IF o.opt = "refresh" THEN [msg EXCEPT !.RefreshTodos = ~@]
                  ELSE [msg EXCEPT !.Toast = o.msg]
         IN ApplyOptsFlips(m, Tail(opts))

\* Notify: msg := UpdateMessage{}; for _, opt := range opts { opt(&msg) }
RECURSIVE ApplyOpts(_, _)
ApplyOpts(msg, opts) ==
    IF opts = << >> THEN msg
    ELSE LET o == Head(opts)
             m == IF o.opt = "refresh" THEN [msg EXCEPT !.RefreshTodos = TRUE]
                  ELSE [msg EXCEPT !.Toast = o.msg]
         IN ApplyOpts(m, Tail(opts))

\* handlers that leave out WithRefresh when they attach a toast
NotifyOptsToastOnly(op) ==
    CASE op.kind = "reset" -> << WithToast(ToastReset) >>
      [] op.kind = "edit" ->
            << WithToast(IF op.idx < 0 THEN ToastCreated ELSE ToastUpdated) >>
      [] op.kind = "delete" -> << WithToast(ToastDeleted) >>
      [] OTHER -> << WithRefresh >>

\* the options each handler hands to notifyUpdate
NotifyOpts(op) ==
    CASE op.kind = "reset" -> << WithRefresh, WithToast(ToastReset) >>
      [] op.kind = "edit" ->
            << WithRefresh, WithToast(IF op.idx < 0 THEN ToastCreated ELSE ToastUpdated) >>
      [] op.kind = "delete" -> << WithRefresh, WithToast(ToastDeleted) >>
      [] OTHER -> << WithRefresh >>

\* a publish that reaches every subscription whatever its subject
PublishToAll(subj, msg) ==
    [t \in Streams |->
        IF subscribed[t] /\ Len(msgChan[t]) < MsgChanCap
        THEN Append(msgChan[t], [msg EXCEPT !.subj = subj])
        ELSE msgChan[t]]

\* a publish that reaches nobody when the channel of one subscriber is full
PublishAllOrNone(subj, msg) ==
    [t \in Streams |->
        IF /\ subscribed[t] /\ subject(loc[t].sid) = subj
           /\ \A u \in Streams : subscribed[u] => Len(msgChan[u]) < MsgChanCap
        THEN Append(msgChan[t], [msg EXCEPT !.subj = subj])
        ELSE msgChan[t]]

\* nc.Publish(subject, data): the message reaches the channel of every subscription
\* on that subject that has room; a full channel drops it for that subscriber only
Publish(subj, msg) ==
    [t \in Streams |->
        IF subscribed[t] /\ subject(loc[t].sid) = subj /\ Len(msgChan[t]) < MsgChanCap
        THEN Append(msgChan[t], [msg EXCEPT !.subj = subj])
        ELSE msgChan[t]]

\* a publish on the subject of session s is lost for p: a stream of s that is open
\* and has no subscription yet, or whose channel is full
Dropped(p, s) ==
    /\ p \in Streams /\ SessionOf(p) = s
    /\ pc[p] \notin {"closed", "done"}
    /\ ~subscribed[p] \/ Len(msgChan[p]) = MsgChanCap

\* the handler after SaveMVC returned nil: h.notifyUpdate(sessionID, opts...);
\* w.WriteHeader(http.StatusOK)
NotifyStep(h) ==
    /\ pc[h] = "notify"
    /\ LET msg == ApplyOpts([NoMsg EXCEPT !.persisted = obs[h].hasSaved, !.ver = obs[h].ver],
                            NotifyOpts(loc[h].op))
       IN msgChan' = Publish(subject(loc[h].sid), msg)
    /\ pc' = [pc EXCEPT ![h] = "idle"]
    /\ loc' = [loc EXCEPT ![h] = LocOf(h)]
    /\ obs' = [p \in Procs |->
                IF p = h THEN [obs[h] EXCEPT !.resp = 200, !.npub = obs[h].npub + 1]
                ELSE IF Dropped(p, loc[h].sid)
                THEN [obs[p] EXCEPT !.missedVer = obs[h].ver]
                ELSE obs[p]]
    /\ UNCHANGED << todos, sessions, clock, subscribed, cancelled, nops, failures, hist, replay >>

\* pubsub.Notify(nc, subject(s), opts...) is called with the options opts
NotifyCall(s, opts, max) ==
    /\ nops < max
    /\ nops' = nops + 1
    /\ msgChan' = Publish(subject(s), ApplyOpts([NoMsg EXCEPT !.id = nops + 1], opts))
    /\ obs' = [p \in Procs |->
                IF p \in Streams /\ subscribed[p] /\ SessionOf(p) = s
                THEN [obs[p] EXCEPT !.due = @ \cup {nops + 1},
                                     !.fullAt = IF Len(msgChan[p]) = MsgChanCap
                                                THEN @ \cup {nops + 1} ELSE @]
                ELSE obs[p]]
    /\ UNCHANGED << todos, sessions, clock, pc, loc, subscribed, cancelled,
                    failures, hist, replay >>

\* nc.Publish(subject(s), data) by some other publisher, with data that
\* json.Unmarshal rejects, whatever the bytes were meant to say
PublishRaw(s, refresh, toast, max) ==
    /\ nops < max
    /\ nops' = nops + 1
    /\ msgChan' = Publish(subject(s), [NoMsg EXCEPT !.id = nops + 1, !.malformed = TRUE,
                                                    !.RefreshTodos = refresh, !.Toast = toast])
    /\ obs' = [p \in Procs |->
                IF p \in Streams /\ subscribed[p] /\ SessionOf(p) = s
                THEN [obs[p] EXCEPT !.due = @ \cup {nops + 1}]
                ELSE obs[p]]
    /\ UNCHANGED << todos, sessions, clock, pc, loc, subscribed, cancelled,
                    failures, hist, replay >>

\* pubsub.ParseUpdateMessage: json.Unmarshal into an UpdateMessage; err is set for
\* data that is not the JSON of one, and msg is then whatever was decoded so far
ParseUpdateMessage(data) ==
    [err |-> data.malformed, msg |-> data]

\* ---------------------------------------------------------------- the streams
\* an entry that subscribes before the initial refreshTodos
StreamOpenSubscribesFirst(t) ==
    /\ pc[t] = "closed"
    /\ pc' = [pc EXCEPT ![t] = "subscribe"]
    /\ loc' = [loc EXCEPT ![t] = [LocOf(t) EXCEPT !.phase = "initial"]]
    /\ UNCHANGED << todos, sessions, clock, msgChan, subscribed, cancelled,
                    nops, failures, hist, replay, obs >>

\* TodosUpdates is entered: RequireSession, datastar.NewSSE, then the initial refreshTodos
StreamOpen(t) ==
    /\ pc[t] = "closed"
    /\ pc' = [pc EXCEPT ![t] = "getTodos"]
    /\ loc' = [loc EXCEPT ![t] = [LocOf(t) EXCEPT !.phase = "initial"]]
    /\ UNCHANGED << todos, sessions, clock, msgChan, subscribed, cancelled,
                    nops, failures, hist, replay, obs >>

\* the request context is cancelled (the client went away, or the server shuts down)
Cancel(t) ==
    /\ pc[t] \notin {"closed", "done"}
    /\ ~cancelled[t]
    /\ cancelled' = [cancelled EXCEPT ![t] = TRUE]
    /\ UNCHANGED << todos, sessions, clock, pc, loc, msgChan, subscribed,
                    nops, failures, hist, replay, obs >>

\* an exit that unsubscribes a second time
UnsubscribeTwice(o) == [o EXCEPT !.unsubs = o.unsubs + 2]

\* defer sub.Unsubscribe(), run once when TodosUpdates returns after subscribing
Unsubscribe(o) == [o EXCEPT !.unsubs = o.unsubs + 1]

\* TodosUpdates returns: the deferred Unsubscribe runs if the subscription was made
StreamReturn(t, o) ==
    /\ pc' = [pc EXCEPT ![t] = "done"]
    /\ loc' = [loc EXCEPT ![t] = LocOf(t)]
    /\ subscribed' = [subscribed EXCEPT ![t] = FALSE]
    /\ msgChan' = [msgChan EXCEPT ![t] = << >>]
    /\ obs' = [obs EXCEPT ![t] = IF subscribed[t] THEN Unsubscribe(o) ELSE o]

\* LogConsoleError(sse, err); return: one more write to the client is attempted
StreamError(t) ==
    StreamReturn(t, [obs[t] EXCEPT !.hasLoaded = FALSE, !.loaded = NoMVC,
                                   !.latePush = obs[t].latePush \/ obs[t].late,
                                   !.errs = obs[t].errs + 1])

\* a refresh push after which the toast of the event is left out
PushStepSkipsToast(t) ==
    /\ pc[t] = "push"
    /\ pc' = [pc EXCEPT ![t] =
                IF loc[t].phase = "initial" THEN "subscribe"
                ELSE "listen"]
    /\ obs' = [obs EXCEPT ![t] =
                IF loc[t].phase = "initial"
                THEN [@ EXCEPT !.hasInit = TRUE, !.initPush = loc[t].mvc,
                               !.hasLoaded = FALSE, !.loaded = NoMVC]
                ELSE [@ EXCEPT !.hasRef = TRUE, !.refPush = loc[t].mvc,
                               !.refVer = loc[t].msg.ver,
                               !.hasLoaded = FALSE, !.loaded = NoMVC,
                               !.latePush = @ \/ obs[t].late, !.owesRef = FALSE]]
    /\ loc' = [loc EXCEPT ![t] =
                IF loc[t].phase = "initial"
                THEN [@ EXCEPT !.mvc = NoMVC]
                ELSE LocOf(t)]
    /\ UNCHANGED << todos, sessions, clock, msgChan, subscribed, cancelled,
                    nops, failures, hist, replay >>

\* refreshTodos: sse.PatchElementTempl(TodosMVCView(mvc)) succeeded
PushStep(t) ==
    /\ pc[t] = "push"
    /\ pc' = [pc EXCEPT ![t] =
                IF loc[t].phase = "initial" THEN "subscribe"
                ELSE IF loc[t].msg.Toast # "" THEN "toast" ELSE "listen"]
    /\ obs' = [obs EXCEPT ![t] =
                IF loc[t].phase = "initial"
                THEN [@ EXCEPT !.hasInit = TRUE, !.initPush = loc[t].mvc,
                               !.hasLoaded = FALSE, !.loaded = NoMVC]
                ELSE [@ EXCEPT !.hasRef = TRUE, !.refPush = loc[t].mvc,
                               !.refVer = loc[t].msg.ver,
                               !.hasLoaded = FALSE, !.loaded = NoMVC,
                               !.latePush = @ \/ obs[t].late, !.owesRef = FALSE]]
    /\ loc' = [loc EXCEPT ![t] =
                IF loc[t].phase = "initial" \/ loc[t].msg.Toast # ""
                THEN [@ EXCEPT !.mvc = NoMVC]
                ELSE LocOf(t)]
    /\ UNCHANGED << todos, sessions, clock, msgChan, subscribed, cancelled,
                    nops, failures, hist, replay >>

\* h.nats.ChanSubscribe(subject(sessionID), msgChan) succeeded; defer sub.Unsubscribe()
SubscribeStep(t) ==
    /\ pc[t] = "subscribe"
    /\ pc' = [pc EXCEPT ![t] = "listen"]
    /\ subscribed' = [subscribed EXCEPT ![t] = TRUE]
    /\ obs' = [obs EXCEPT ![t].everSub = TRUE]
    /\ UNCHANGED << todos, sessions, clock, loc, msgChan, cancelled, nops, failures, hist, replay >>

\* select: case <-ctx.Done(): return
SelectDone(t) ==
    /\ pc[t] = "listen"
    /\ cancelled[t]
    /\ StreamReturn(t, obs[t])
    /\ UNCHANGED << todos, sessions, clock, cancelled, nops, failures, hist, replay >>

\* a select loop that goes on with whatever ParseUpdateMessage returned, error or not
SelectMsgIgnoresErr(t) ==
    /\ pc[t] = "listen"
    /\ msgChan[t] # << >>
    /\ LET m == Head(msgChan[t])
       IN /\ loc' = [loc EXCEPT ![t].msg = m, ![t].phase = "refresh"]
          /\ pc' = [pc EXCEPT ![t] =
                      IF m.RefreshTodos THEN "getTodos"
                      ELSE IF m.Toast # "" THEN "toast" ELSE "listen"]
    /\ msgChan' = [msgChan EXCEPT ![t] = Tail(@)]
    /\ obs' = [obs EXCEPT ![t].late = cancelled[t], ![t].hasRef = FALSE,
                          ![t].refPush = NoMVC, ![t].refVer = 0,
                          ![t].owesRef = Head(msgChan[t]).RefreshTodos,
                          ![t].owesToast = Head(msgChan[t]).Toast # "",
                          ![t].got = IF Head(msgChan[t]).id = 0 THEN @
                                     ELSE Append(@, Head(msgChan[t]).id)]
    /\ UNCHANGED << todos, sessions, clock, subscribed, cancelled, nops, failures, hist, replay >>

\* select: case natsMsg := <-msgChan, ParseUpdateMessage (on an error: slog.Error
\* and continue), and the branch on RefreshTodos.
\* With the context done and a message buffered, select may take either case.
SelectMsg(t) ==
    /\ pc[t] = "listen"
    /\ msgChan[t] # << >>
    /\ LET m == Head(msgChan[t])
           parsed == ParseUpdateMessage(m)
       IN IF parsed.err
          THEN /\ pc' = pc
               /\ loc' = loc
               /\ obs' = [obs EXCEPT ![t].got = IF m.id = 0 THEN @ ELSE Append(@, m.id),
                                     ![t].parseErrs = @ + 1]
          ELSE /\ loc' = [loc EXCEPT ![t].msg = parsed.msg, ![t].phase = "refresh"]
               /\ pc' = [pc EXCEPT ![t] =
                           IF parsed.msg.RefreshTodos THEN "getTodos"
                           ELSE IF parsed.msg.Toast # "" THEN "toast" ELSE "listen"]
               /\ obs' = [obs EXCEPT ![t].late = cancelled[t], ![t].hasRef = FALSE,
                                     ![t].refPush = NoMVC, ![t].refVer = 0,
                                     ![t].owesRef = parsed.msg.RefreshTodos,
                                     ![t].owesToast = parsed.msg.Toast # "",
                                     ![t].got = IF m.id = 0 THEN @ ELSE Append(@, m.id)]
    /\ msgChan' = [msgChan EXCEPT ![t] = Tail(@)]
    /\ UNCHANGED << todos, sessions, clock, subscribed, cancelled, nops, failures, hist, replay >>

\* the toast of the message: sse.PatchElementTempl(toastComponent, ...); an error is
\* logged and the loop goes on. ok: the write succeeded.
ToastStep(t, ok) ==
    /\ pc[t] = "toast"
    /\ ok \/ cancelled[t] \/ failures < MaxFailures
    /\ failures' = IF ok \/ cancelled[t] THEN failures ELSE failures + 1
    /\ pc' = [pc EXCEPT ![t] = "listen"]
    /\ loc' = [loc EXCEPT ![t] = LocOf(t)]
    /\ obs' = [obs EXCEPT ![t].latePush = @ \/ obs[t].late,
                          ![t].pushFailed = @ \/ ~ok, ![t].owesToast = FALSE]
    /\ UNCHANGED << todos, sessions, clock, msgChan, subscribed, cancelled, nops, hist, replay >>

\* --------------------------------------------------- SQLiteStore.WithinTransaction
\* the values WithinTransaction returns
ErrBegin == "begin transaction"
ErrCommit == "commit transaction"
ErrFn == "fn"
ErrFnRollback == "fn, rollback failed"
RetNil == "nil"

\* tx, err := s.db.BeginTx(ctx, nil); on an error fn is not called
BeginTx(h, ok) ==
    /\ pc[h] = "idle"
    /\ nops < MaxOps
    /\ nops' = nops + 1
    /\ obs' = [obs EXCEPT ![h] = [InitObs EXCEPT !.pre = Persisted(SessionOf(h))]]
    /\ IF ok
       THEN /\ pc' = [pc EXCEPT ![h] = "fn"]
            /\ loc' = [loc EXCEPT ![h] = [LocOf(h) EXCEPT !.tx.open = TRUE]]
       ELSE /\ pc' = pc
            /\ loc' = [loc EXCEPT ![h] = [LocOf(h) EXCEPT !.ret = ErrBegin]]
    /\ UNCHANGED << todos, sessions, clock, msgChan, subscribed, cancelled,
                    failures, hist, replay >>

\* fn writes a row through the transaction: s.conn(txCtx) is bound to tx, and the
\* row is in the table only once tx is committed
TxWrite(h, text) ==
    /\ pc[h] = "fn"
    /\ Len(loc[h].tx.writes) < MaxWrites
    /\ loc' = [loc EXCEPT ![h].tx.writes =
                    Append(@, [user_id |-> loc[h].sid, task |-> text,
                               completed |-> 0, created_at |-> clock])]
    /\ UNCHANGED << todos, sessions, clock, pc, msgChan, subscribed, cancelled,
                    nops, failures, hist, replay, obs >>

\* a WithinTransaction that goes on to Commit whatever fn returned
FnReturnCommits(h, err) ==
    /\ pc[h] = "fn"
    /\ pc' = [pc EXCEPT ![h] = "commit"]
    /\ loc' = [loc EXCEPT ![h].fnErr = IF err THEN ErrFn ELSE RetNil]
    /\ UNCHANGED << todos, sessions, clock, msgChan, subscribed, cancelled,
                    nops, failures, hist, replay, obs >>

\* if err := fn(ctxWithTx); err != nil { ... }
FnReturn(h, err) ==
    /\ pc[h] = "fn"
    /\ pc' = [pc EXCEPT ![h] = IF err THEN "rollback" ELSE "commit"]
    /\ loc' = [loc EXCEPT ![h].fnErr = IF err THEN ErrFn ELSE RetNil]
    /\ UNCHANGED << todos, sessions, clock, msgChan, subscribed, cancelled,
                    nops, failures, hist, replay, obs >>

\* tx.Rollback(): the rows written through tx are discarded; when Rollback itself
\* fails the transaction is not committed either, and the two errors are joined
Rollback(h, ok) ==
    /\ pc[h] = "rollback"
    /\ pc' = [pc EXCEPT ![h] = "idle"]
    /\ loc' = [loc EXCEPT ![h].tx.open = FALSE, ![h].tx.rolledBack = TRUE,
                          ![h].ret = IF ok THEN loc[h].fnErr ELSE ErrFnRollback]
    /\ UNCHANGED << todos, sessions, clock, msgChan, subscribed, cancelled,
                    nops, failures, hist, replay, obs >>

\* tx.Commit(): the rows written through tx reach the table, or, when Commit
\* fails, none of them does
Commit(h, ok) ==
    /\ pc[h] = "commit"
    /\ pc' = [pc EXCEPT ![h] = "idle"]
    /\ todos' = IF ok THEN todos \o loc[h].tx.writes ELSE todos
    /\ loc' = [loc EXCEPT ![h].tx.open = FALSE, ![h].tx.committed = TRUE,
                          ![h].ret = IF ok THEN RetNil ELSE ErrCommit]
    /\ UNCHANGED << sessions, clock, msgChan, subscribed, cancelled,
                    nops, failures, hist, replay, obs >>

\* WithinTransaction called with any fn: some writes through the transaction,
\* then nil or an error
NextTx ==
    \E h \in {"h2"} :
        \/ \E ok \in BOOLEAN : BeginTx(h, ok)
        \/ \E text \in 1..MaxText : TxWrite(h, text)
        \/ \E err \in BOOLEAN : FnReturn(h, err)
        \/ \E ok \in BOOLEAN : Rollback(h, ok)
        \/ \E ok \in BOOLEAN : Commit(h, ok)

SpecTx == Init /\ [][NextTx]_vars

\* ------------------------------------------------------------------ shutdown
\* the context of run is cancelled: egctx, the BaseContext of every request, is
\* done, and the shutdown goroutine calls srv.Shutdown with a timeout of 5 seconds
Shutdown ==
    /\ pc[Server] = "serving"
    /\ pc' = [pc EXCEPT ![Server] = "shutdown"]
    /\ cancelled' = [t \in Streams |-> cancelled[t] \/ pc[t] \notin {"closed", "done"}]
    /\ UNCHANGED << todos, sessions, clock, loc, msgChan, subscribed,
                    nops, failures, hist, replay, obs >>

\* application.Close(), deferred in run: a.NATS.Close(), a.NATSServer.Shutdown(),
\* a.Store.Close()
Close ==
    /\ pc' = [pc EXCEPT ![Server] = "released"]
    /\ UNCHANGED << todos, sessions, clock, loc, msgChan, subscribed, cancelled,
                    nops, failures, hist, replay, obs >>

\* srv.Shutdown returns context.DeadlineExceeded: the 5 seconds have passed with a
\* stream still in an SQL statement or in a write to its client (the server sets
\* no write timeout); eg.Wait returns and the deferred Close runs
ShutdownTimesOut ==
    /\ pc[Server] = "shutdown"
    /\ \E t \in Streams : pc[t] \in DbStates \cup {"push", "toast"}
    /\ Close

\* srv.Shutdown returns nil: no request is being served any more; eg.Wait
\* returns and the deferred Close runs
ShutdownReturns ==
    /\ pc[Server] = "shutdown"
    /\ \A t \in Streams : pc[t] \in {"closed", "done"}
    /\ Close

\* ------------------------------------------------------------------ failures
\* an SQL statement returns an error: one injected, or the context error of a
\* stream whose context is done. GetMVCBySessionID ignores the error of GetSession
\* and goes on with the default view state; every other error is returned.
StmtFail(p) ==
    /\ pc[p] \in DbStates
    /\ CtxDone(p) \/ failures < MaxFailures
    /\ failures' = IF CtxDone(p) THEN failures ELSE failures + 1
    /\ IF pc[p] = "getSession"
       THEN /\ GetSessionResult(p, TRUE)
            /\ UNCHANGED << msgChan, subscribed >>
       ELSE IF p \in Handlers
       THEN /\ HandlerError(p, [obs[p] EXCEPT !.saveFailed = pc[p] \in SaveStates])
            /\ UNCHANGED << msgChan, subscribed >>
       ELSE StreamError(p)
    /\ UNCHANGED << todos, sessions, clock, cancelled, nops, hist, replay >>

\* the write of refreshTodos to the client fails
PushFail(t) ==
    /\ pc[t] = "push"
    /\ cancelled[t] \/ failures < MaxFailures
    /\ failures' = IF cancelled[t] THEN failures ELSE failures + 1
    /\ StreamReturn(t, [obs[t] EXCEPT !.hasLoaded = FALSE, !.loaded = NoMVC,
                                       !.latePush = obs[t].latePush \/ obs[t].late,
                                       !.pushFailed = TRUE, !.errs = obs[t].errs + 1])
    /\ UNCHANGED << todos, sessions, clock, cancelled, nops, hist, replay >>

\* a failed ChanSubscribe after which the deferred Unsubscribe runs all the same
SubscribeFailUnsubscribes(t) ==
    /\ pc[t] = "subscribe"
    /\ failures < MaxFailures
    /\ failures' = failures + 1
    /\ StreamReturn(t, Unsubscribe([obs[t] EXCEPT !.errs = obs[t].errs + 1,
                                                  !.subFailed = TRUE]))
    /\ UNCHANGED << todos, sessions, clock, cancelled, nops, hist, replay >>

\* ChanSubscribe fails: LogConsoleError and return, before the defer is registered
SubscribeFail(t) ==
    /\ pc[t] = "subscribe"
    /\ failures < MaxFailures
    /\ failures' = failures + 1
    /\ StreamReturn(t, [obs[t] EXCEPT !.hasLoaded = FALSE, !.loaded = NoMVC,
                                       !.latePush = obs[t].latePush \/ obs[t].late,
                                       !.errs = obs[t].errs + 1, !.subFailed = TRUE])
    /\ UNCHANGED << todos, sessions, clock, cancelled, nops, hist, replay >>

\* ------------------------------------------------------------ specifications
\* the requests of the runs with streams
Menu ==
    { Op("toggle", 0, 0, 0, TRUE),
      Op("reset", 0, 0, 0, TRUE) }

\* the requests of the runs of the store alone
StoreMenu ==
    { Op("toggle", 0, 0, 0, TRUE),
      Op("edit", -1, 0, 6, TRUE),
      Op("mode", 0, TodoViewModeActive, 0, TRUE) }

\* one request of every mutation kind
Kinds ==
    { Op("toggle", 0, 0, 0, TRUE),
      Op("edit", 0, 0, 6, TRUE),
      Op("delete", 0, 0, 0, TRUE),
      Op("reset", 0, 0, 0, TRUE),
      Op("mode", 0, TodoViewModeActive, 0, TRUE),
      Op("startEdit", 1, 0, 0, TRUE),
      Op("cancelEdit", 0, 0, 0, TRUE) }

StoreSteps(p) ==
    \/ GetTodosStep(p)
    \/ GetSessionStep(p)
    \/ DeleteStep(p)
    \/ InsertStep(p)
    \/ UpsertStep(p)

StoreNext(p) ==
    \/ StoreSteps(p)
    \/ StmtFail(p)

HandlerNext(H, M, max) ==
    \E h \in H :
        \/ \E op \in M : HandlerStart(h, op, max)
        \/ StoreNext(h)
        \/ NotifyStep(h)

StreamNext(T) ==
    \E t \in T :
        \/ StreamOpen(t)
        \/ Cancel(t)
        \/ StoreNext(t)
        \/ PushStep(t)
        \/ PushFail(t)
        \/ SubscribeStep(t)
        \/ SubscribeFail(t)
        \/ SelectDone(t)
        \/ SelectMsg(t)
        \/ \E ok \in BOOLEAN : ToastStep(t, ok)

\* one request handler and one stream of one session
Next ==
    \/ HandlerNext({"h1"}, Menu, MaxOps)
    \/ StreamNext({"t1"})

Spec == Init /\ [][Next]_vars

\* two request handlers of one session, no stream
NextStore ==
    \/ Tick
    \/ HandlerNext(Handlers, StoreMenu, MaxOps)

SpecStore == Init /\ [][NextStore]_vars

\* one request handler, whose request is of any mutation kind, and one stream that
\* stays connected
NextKinds ==
    \/ HandlerNext({"h1"}, Kinds, MaxOpsOne)
    \/ \E t \in {"t1"} :
            \/ StreamOpen(t)
            \/ StoreSteps(t)
            \/ PushStep(t)
            \/ SubscribeStep(t)
            \/ SelectMsg(t)
            \/ \E ok \in BOOLEAN : ToastStep(t, ok)

SpecKinds == Init /\ [][NextKinds]_vars

\* the option lists Notify is called with
OptLists ==
    { << >>,
      << WithRefresh >>,
      << WithToast(ToastReset) >>,
      << WithRefresh, WithToast(ToastReset) >>,
      << WithToast(ToastReset), WithRefresh >> }

\* Notify called with any options, and one stream that stays connected
NextNotify ==
    \/ \E opts \in OptLists : NotifyCall("s1", opts, MaxOps)
    \/ \E t \in {"t1"} :
            \/ StreamOpen(t)
            \/ StoreSteps(t)
            \/ PushStep(t)
            \/ SubscribeStep(t)
            \/ SelectMsg(t)
            \/ \E ok \in BOOLEAN : ToastStep(t, ok)

SpecNotify == Init /\ [][NextNotify]_vars

\* Notify called for either session, two streams of one session and one of the
\* other, which open at any time
NextFanout ==
    \/ \E s \in Sessions : NotifyCall(s, << WithToast(ToastReset) >>, MaxOps)
    \/ \E t \in Streams :
            \/ StreamOpen(t)
            \/ StoreSteps(t)
            \/ PushStep(t)
            \/ SubscribeStep(t)
            \/ SelectMsg(t)
            \/ ToastStep(t, TRUE)

SpecFanout == Init /\ [][NextFanout]_vars

\* Notify called again and again once every stream is subscribed: the clients
\* connect one after the other, t1 never gets to read its channel, t2 of the same
\* session and t3 of the other one do; the other session is notified once the
\* channel of t1 is full
NextOverflow ==
    \/ /\ \A t \in Streams : subscribed[t]
       /\ \/ NotifyCall("s1", << WithToast(ToastReset) >>, MaxPublishes)
          \/ /\ Len(msgChan["t1"]) = MsgChanCap
             /\ NotifyCall("s2", << WithToast(ToastReset) >>, MaxPublishes)
    \/ \E t \in Streams :
            \/ /\ \A u \in Streams : pc[u] \in {"closed", "listen", "toast"}
               /\ StreamOpen(t)
            \/ StoreSteps(t)
            \/ PushStep(t)
            \/ SubscribeStep(t)
    \/ \E t \in Streams \ {"t1"} :
            \/ SelectMsg(t)
            \/ ToastStep(t, TRUE)

SpecOverflow == Init /\ [][NextOverflow]_vars

\* requests with well-formed and with malformed parameters: an idx that is not a
\* number, an idx far beyond the end of the list, a mode beyond Completed
InputMenu ==
    { Op("toggle", 0, 0, 0, TRUE),
      Op("toggle", 0, 0, 0, FALSE),
      Op("toggle", 9, 0, 0, TRUE),
      Op("delete", 0, 0, 0, TRUE),
      Op("startEdit", 1, 0, 0, TRUE),
      Op("startEdit", 9, 0, 0, TRUE),
      Op("startEdit", 0, 0, 0, FALSE),
      Op("mode", 0, TodoViewModeActive, 0, TRUE),
      Op("mode", 0, TodoViewModeCompleted + 1, 0, TRUE) }

\* one request handler, given any of these requests
NextInput == HandlerNext({"h1"}, InputMenu, MaxOps)

SpecInput == Init /\ [][NextInput]_vars

\* the mode parameter of a set-mode request: every mode, one below All and one
\* beyond Completed, and one that is not a number; besides, a reset and a toggle
ModeMenu ==
    { Op("mode", 0, m, 0, TRUE) : m \in (TodoViewModeAll - 1)..(TodoViewModeCompleted + 1) }
    \cup { Op("mode", 0, TodoViewModeActive, 0, FALSE),
           Op("reset", 0, 0, 0, TRUE),
           Op("toggle", 0, 0, 0, TRUE) }

\* one request handler of session s1, given any of these requests, and a stream of
\* session s2 that loads (and so seeds) its state
NextModes ==
    \/ HandlerNext({"h1"}, ModeMenu, MaxOps)
    \/ \E t \in {"t3"} :
            \/ StreamOpen(t)
            \/ StoreNext(t)
            \/ PushStep(t)
            \/ SubscribeStep(t)

SpecModes == Init /\ [][NextModes]_vars

\* the lists a session is left with one mutation before it is empty: the seed
\* after its first item was deleted, and the seed with every item completed
LastItems ==
    { << Todo(2, FALSE) >>,
      << Todo(1, TRUE), Todo(2, TRUE) >> }

\* the rows saveMVCToDB leaves for the list l of session s
RowsOf(s, l) ==
    [k \in 1..Len(l) |-> [user_id |-> s, task |-> l[k].Text,
                          completed |-> IF l[k].Completed THEN 1 ELSE 0,
                          created_at |-> 0]]

\* session s1 has been saved with one of these lists and any mode; no request is
\* under way
InitSaved ==
    /\ \E l \in LastItems : \E m \in TodoViewModeAll..TodoViewModeCompleted :
          LET mvc == [Todos |-> l, Mode |-> m, EditingIdx |-> -1]
          IN /\ todos = RowsOf("s1", l)
             /\ sessions = [s \in Sessions |->
                              IF s = "s1"
                              THEN [valid |-> TRUE, mode |-> m, editing_idx |-> -1]
                              ELSE NoSession]
             /\ hist = [s \in Sessions |-> IF s = "s1" THEN << mvc >> ELSE << >>]
             /\ replay = [s \in Sessions |-> IF s = "s1" THEN mvc ELSE resetMVC(NoMVC)]
    /\ clock = 0
    /\ pc = [p \in Procs \cup {Server} |->
                IF p = Server THEN "serving" ELSE IF p \in Handlers THEN "idle" ELSE "closed"]
    /\ loc = [p \in Procs |-> LocOf(p)]
    /\ msgChan = [t \in Streams |-> << >>]
    /\ subscribed = [t \in Streams |-> FALSE]
    /\ cancelled = [t \in Streams |-> FALSE]
    /\ nops = 0
    /\ failures = 0
    /\ obs = [p \in Procs |-> InitObs]

\* requests that delete: item 0, and every completed item
DeleteMenu ==
    { Op("delete", 0, 0, 0, TRUE),
      Op("delete", -1, 0, 0, TRUE) }

\* one stream that stays connected and, once it has subscribed, one request
\* handler, given any of these requests; no statement fails
NextSaved ==
    \/ /\ obs["t1"].everSub
       /\ \E h \in {"h1"} :
            \/ \E op \in DeleteMenu : HandlerStart(h, op, MaxOps)
            \/ StoreSteps(h)
            \/ NotifyStep(h)
    \/ \E t \in {"t1"} :
            \/ StreamOpen(t)
            \/ StoreSteps(t)
            \/ PushStep(t)
            \/ SubscribeStep(t)
            \/ SelectMsg(t)
            \/ ToastStep(t, TRUE)

SpecSaved == InitSaved /\ [][NextSaved]_vars

\* the steps of a stream that stays connected, and the steps of a handler once it
\* has its request: neither waits for anything but its own turn
LiveStream(t) ==
    \/ StreamOpen(t)
    \/ StoreSteps(t)
    \/ PushStep(t)
    \/ SubscribeStep(t)
    \/ SelectMsg(t)
    \/ ToastStep(t, TRUE)

LiveHandler(h) ==
    \/ StoreSteps(h)
    \/ NotifyStep(h)

\* the stream has done its initial read
InitialReadDone(t) == obs[t].hasLoaded \/ obs[t].hasInit

\* one stream that stays connected and one request handler, given toggle and
\* reset requests once the stream has done its initial read; no statement fails
NextLive ==
    \/ /\ InitialReadDone("t1")
       /\ \E op \in Menu : HandlerStart("h1", op, MaxOps)
    \/ LiveHandler("h1")
    \/ LiveStream("t1")

\* the goroutines of the handler and of the stream run on: a step that stays
\* possible is taken; requests come when the client sends them
SpecLive ==
    /\ Init /\ [][NextLive]_vars
    /\ WF_vars(LiveHandler("h1"))
    /\ WF_vars(LiveStream("t1"))

\* the requests that change the view state only
ViewMenu ==
    { Op("mode", 0, TodoViewModeActive, 0, TRUE),
      Op("startEdit", 1, 0, 0, TRUE),
      Op("cancelEdit", 0, 0, 0, TRUE) }

ViewKinds == { op.kind : op \in ViewMenu }

\* one request handler, given any of these requests, while the wall clock runs;
\* no statement fails
NextView ==
    \/ Tick
    \/ \E h \in {"h1"} :
            \/ \E op \in ViewMenu : HandlerStart(h, op, MaxOps)
            \/ StoreSteps(h)
            \/ NotifyStep(h)

SpecView == Init /\ [][NextView]_vars

\* an index far beyond the end of any list
BeyondEnd == 9

\* toggle, edit and delete requests whose idx is the length of the seeded list or
\* far beyond it, and a start-edit of item 1
RangeMenu ==
    { Op(k, i, 0, IF k = "edit" THEN 6 ELSE 0, TRUE) :
        k \in {"toggle", "edit", "delete"}, i \in {SeedLen, BeyondEnd} }
    \cup { Op("startEdit", 1, 0, 0, TRUE) }

\* one stream that stays connected and, once it has subscribed, one request
\* handler, given any of these requests; no statement fails
NextRange ==
    \/ /\ obs["t1"].everSub
       /\ \E h \in {"h1"} :
            \/ \E op \in RangeMenu : HandlerStart(h, op, MaxOps)
            \/ StoreSteps(h)
            \/ NotifyStep(h)
    \/ LiveStream("t1")

SpecRange == Init /\ [][NextRange]_vars

\* one stream that stays connected and, once it has subscribed, publishes on its
\* subject: by Notify with a refresh (and a toast), and by others with data that
\* does not parse
NextParse ==
    \/ /\ obs["t1"].everSub
       /\ \/ \E opts \in {<< WithRefresh >>, << WithRefresh, WithToast(ToastReset) >>} :
                    NotifyCall("s1", opts, MaxPublished)
          \/ \E r \in BOOLEAN : \E m \in {"", ToastReset} :
                    PublishRaw("s1", r, m, MaxPublished)
    \/ LiveStream("t1")

SpecParse == Init /\ [][NextParse]_vars

\* save-edit requests: a new item and an edit of item 0, each with an empty input
\* and with a text, and an empty input next to an idx that is not a number
EditMenu ==
    { Op("edit", -1, 0, 0, TRUE),
      Op("edit", 0, 0, 0, TRUE),
      Op("edit", 0, 0, 0, FALSE),
      Op("edit", -1, 0, 6, TRUE),
      Op("edit", 0, 0, 6, TRUE) }

\* one stream that stays connected and, once it has subscribed, one request
\* handler, given any of these requests
NextEdit ==
    \/ obs["t1"].everSub /\ HandlerNext({"h1"}, EditMenu, MaxOps)
    \/ \E t \in {"t1"} :
            \/ StreamOpen(t)
            \/ StoreSteps(t)
            \/ PushStep(t)
            \/ SubscribeStep(t)
            \/ SelectMsg(t)
            \/ ToastStep(t, TRUE)

SpecEdit == Init /\ [][NextEdit]_vars

\* the transition of op is called on the mvc that h holds; pre keeps the mvc as
\* it was before the call
Transition(h, op) ==
    /\ nops < MaxOps
    /\ nops' = nops + 1
    /\ loc' = [loc EXCEPT ![h].mvc = ApplyOp(@, op), ![h].op = op]
    /\ obs' = [obs EXCEPT ![h].pre = loc[h].mvc]
    /\ UNCHANGED << todos, sessions, clock, pc, msgChan, subscribed, cancelled,
                    failures, hist, replay >>

\* toggle, edit and delete with every index from -1 to MaxLen
TransitionMenu ==
    { Op(k, i, 0, IF k = "edit" THEN MaxText ELSE 0, TRUE) :
        k \in {"toggle", "edit", "delete"}, i \in -1..MaxLen }

NextTransitions == \E op \in TransitionMenu : Transition("h1", op)

SpecTransitions == InitTransitions /\ [][NextTransitions]_vars

\* three streams, of two sessions, that connect one after the other; once each has
\* subscribed Notify is called for either session with a refresh and a toast, and
\* a write to a client fails
NextFaults ==
    \/ /\ \A t \in Streams : obs[t].everSub
       /\ \E s \in Sessions :
            NotifyCall(s, << WithRefresh, WithToast(ToastReset) >>, MaxOps)
    \/ \E t \in Streams :
            \/ /\ \A u \in Streams : pc[u] \in {"closed", "listen"}
               /\ StreamOpen(t)
            \/ StoreSteps(t)
            \/ PushStep(t)
            \/ PushFail(t)
            \/ SubscribeStep(t)
            \/ SelectMsg(t)
            \/ \E ok \in BOOLEAN : ToastStep(t, ok)

SpecFaults == Init /\ [][NextFaults]_vars

\* two streams of one session and the shutdown of the process
NextShutdown ==
    \/ Shutdown
    \/ ShutdownTimesOut
    \/ ShutdownReturns
    \/ \E t \in StreamsOf("s1") :
            \/ pc[Server] = "serving" /\ StreamOpen(t)
            \/ StoreNext(t)
            \/ PushStep(t)
            \/ PushFail(t)
            \/ SubscribeStep(t)
            \/ SelectDone(t)

SpecShutdown == Init /\ [][NextShutdown]_vars

\* a request handler of one session and a stream of the other
NextSessions ==
    \/ HandlerNext({"h1"}, StoreMenu, MaxOps)
    \/ \E t \in StreamsOf("s2") :
            \/ StreamOpen(t)
            \/ StoreNext(t)
            \/ PushStep(t)
            \/ SubscribeStep(t)

SpecSessions == Init /\ [][NextSessions]_vars

\* the options of the package and every list of at most MaxOpts of them
Options ==
    {WithRefresh} \cup
    { WithToast(m) : m \in {ToastReset, ToastUpdated, ToastCreated, ToastDeleted} }

OptSeqs == UNION { [1..n -> Options] : n \in 0..MaxOpts }

\* Notify is about to be called with any such list of options
InitCompose ==
    /\ todos = << >>
    /\ sessions = [s \in Sessions |-> NoSession]
    /\ clock = 0
    /\ pc = [p \in Procs \cup {Server} |->
                IF p = Server THEN "serving" ELSE IF p \in Handlers THEN "idle" ELSE "closed"]
    /\ \E o \in OptSeqs :
            loc = [p \in Procs |-> IF p = "h1" THEN [LocOf(p) EXCEPT !.opts = o] ELSE LocOf(p)]
    /\ msgChan = [t \in Streams |-> << >>]
    /\ subscribed = [t \in Streams |-> FALSE]
    /\ cancelled = [t \in Streams |-> FALSE]
    /\ nops = 0
    /\ failures = 0
    /\ hist = [s \in Sessions |-> << >>]
    /\ replay = [s \in Sessions |-> resetMVC(NoMVC)]
    /\ obs = [p \in Procs |-> InitObs]

\* Notify builds the message from the options h holds
Compose(h) ==
    /\ nops < MaxOpsOne
    /\ nops' = nops + 1
    /\ loc' = [loc EXCEPT ![h].msg = ApplyOpts(NoMsg, loc[h].opts)]
    /\ UNCHANGED << todos, sessions, clock, pc, msgChan, subscribed, cancelled,
                    failures, hist, replay, obs >>

NextCompose == Compose("h1")

SpecCompose == InitCompose /\ [][NextCompose]_vars

\* one request handler and two streams of one session, nothing fails; the client
\* toggles item 0 once a stream has shown it the list
NextE2E ==
    \/ \E h \in {"h1"} :
            \/ /\ \E t \in StreamsOf("s1") : obs[t].hasInit
               /\ HandlerStart(h, Op("toggle", 0, 0, 0, TRUE), MaxOpsOne)
            \/ StoreSteps(h)
            \/ NotifyStep(h)
    \/ \E t \in StreamsOf("s1") :
            \/ StreamOpen(t)
            \/ StoreSteps(t)
            \/ PushStep(t)
            \/ SubscribeStep(t)
            \/ SelectMsg(t)

SpecE2E == Init /\ [][NextE2E]_vars

\* ------------------------------------------------------------------ claims
\* the states handed to the saves of session s that completed
Saved(s) == { hist[s][k] : k \in 1..Len(hist[s]) }

\* no other process has done anything yet
Solo(h) == \A p \in Procs \ {h} : obs[p] = InitObs /\ pc[p] \in {"idle", "closed"}

\* C1: saveSession is atomic for concurrent readers: with no statement failing and
\* within one second of the clock, every state a load of a handler or of a stream
\* returns is the complete state some save of the session wrote, never an
\* intermediate one (some of the items only, or new items with the old view state).
C1_LoadSeesCompleteSave ==
    (failures = 0 /\ clock = 0) =>
        \A p \in Procs : obs[p].hasLoaded => obs[p].loaded \in Saved(loc[p].sid)

\* C2: when a step of a save fails (the delete, an insert or the upsert) in a handler
\* that runs alone, the handler answers with an error and the persisted Items, Mode
\* and EditingIndex are what they were when the save was called.
C2_FailedSaveChangesNothing ==
    \A h \in Handlers :
        (Solo(h) /\ clock = 0 /\ obs[h].saveFailed) =>
            /\ obs[h].resp = 500
            /\ Persisted("s1") = obs[h].pre

\* C3: a handler whose load or save returned an error publishes nothing and answers
\* with an error status, for every mutation kind; every message in a subscription
\* channel, and every message a stream is working on, was published after the
\* save of its mutation had succeeded.
C3_NoPublishAfterFailedPersist ==
    /\ \A h \in Handlers :
            /\ obs[h].resp = 500 => obs[h].npub = 0
            /\ obs[h].saveFailed => pc[h] = "idle" /\ obs[h].resp = 500 /\ obs[h].npub = 0
            /\ pc[h] = "notify" => obs[h].hasSaved
    /\ \A t \in Streams :
            /\ \A k \in 1..Len(msgChan[t]) : msgChan[t][k].persisted
            /\ loc[t].phase = "refresh" => loc[t].msg.persisted

\* C3, its case: the save of a mutation of the seeded list failed while a stream was
\* subscribed and listening; the request was answered with an error
C3_Witness ==
    /\ obs["h1"].saveFailed
    /\ obs["h1"].pre = resetMVC(NoMVC)
    /\ obs["h1"].resp = 500
    /\ subscribed["t1"]
    /\ pc["t1"] = "listen"

\* C4: mutations applied one at a time by one handler, no statement failing: after
\* each successful mutation a load returns exactly the state obtained by replaying
\* the transitions in memory from the default todos (same items, order, completed
\* flags, Mode and EditingIndex).
C4_LoadEqualsReplay ==
    \A h \in Handlers :
        (Solo(h) /\ failures = 0 /\ pc[h] = "idle" /\ obs[h].resp = 200) =>
            LoadAlone("s1") = replay["s1"]

\* C5: seeding is atomic with the load-if-empty check: with no statement failing,
\* as long as only seeding saves have completed and no save is under way, the
\* table holds at most one copy of the default todos.
C5_SeededOnce ==
    ( /\ failures = 0
      /\ Saved("s1") \subseteq {resetMVC(NoMVC)}
      /\ \A p \in Procs : pc[p] \notin {"insert", "upsert"} ) =>
        Len(SelectSeq(todos, LAMBDA r : r.user_id = "s1")) <= Len(DefaultTodos)

\* C6: last writer wins: after two handlers have both answered 200 (no statement
\* failing, within one second of the clock) the persisted state is the state one of
\* the two saved, never a mixture of both.
C6_LastWriterWins ==
    ( /\ failures = 0 /\ clock = 0
      /\ \A h \in Handlers : pc[h] = "idle" /\ obs[h].resp = 200 ) =>
        \E h \in Handlers : Persisted("s1") = obs[h].saved

\* C7: the state a stream pushes after a refresh event is the complete state of a
\* save that completed, and of one no older than the save that caused the event
\* (no statement failing).
C7_RefreshPushIsRecentSave ==
    failures = 0 =>
        \A t \in Streams :
            obs[t].hasRef =>
                \E k \in obs[t].refVer..Len(hist["s1"]) : hist["s1"][k] = obs[t].refPush

\* C8: end to end: a stream opened on the fresh session pushed the default todos,
\* the client then toggled item 0, nothing raced (the seeding and the toggle of the
\* seeded list are the two saves that completed), and another stream pushed the
\* saved state on the update event: in that push item 0 is completed and the other
\* items are those of the default todos.
C8_EndToEnd ==
    \A t1 \in Streams : \A t2 \in Streams \ {t1} :
        ( /\ obs[t1].hasInit /\ obs[t1].initPush = resetMVC(NoMVC)
          /\ pc["h1"] = "idle" /\ obs["h1"].resp = 200
          /\ hist["s1"] = << resetMVC(NoMVC), ToggleTodo(resetMVC(NoMVC), 0) >>
          /\ obs[t2].hasRef /\ obs[t2].refPush = hist["s1"][2] ) =>
            /\ Len(obs[t2].refPush.Todos) = Len(DefaultTodos)
            /\ obs[t2].refPush.Todos[1] = Todo(DefaultTodos[1].Text, TRUE)
            /\ \A k \in 2..Len(DefaultTodos) : obs[t2].refPush.Todos[k] = DefaultTodos[k]

\* C9: a stream that subscribed unsubscribes exactly once, when it exits: never
\* before, never twice, and never not at all, whatever made it exit; a stream that
\* did not subscribe never unsubscribes.
C9_ExactlyOneUnsubscribe ==
    \A t \in Streams :
        /\ obs[t].unsubs <= 1
        /\ (pc[t] = "done" /\ obs[t].everSub) => obs[t].unsubs = 1
        /\ (pc[t] # "done" \/ ~obs[t].everSub) => obs[t].unsubs = 0
        /\ pc[t] = "done" => ~subscribed[t]

\* C9, its case: the stream was cancelled while a publish raced the teardown (it took
\* the message after the cancellation), and it has exited
C9_Witness ==
    /\ pc["t1"] = "done"
    /\ cancelled["t1"]
    /\ obs["t1"].everSub
    /\ obs["t1"].late
    /\ obs["t1"].unsubs = 1

\* C10: a stream whose context is cancelled attempts no push for a message it takes
\* from its subscription channel after the cancellation.
C10_NoPushAfterCancel == \A t \in Streams : ~obs[t].latePush

\* C11: a stream whose push to the client failed (the refresh push or the toast push)
\* goes to its exit: from then on it is never again reading the store, pushing, or
\* working on an event.
C11_PushFailureCloses ==
    \A t \in Streams :
        obs[t].pushFailed =>
            pc[t] \notin {"getTodos", "getSession", "delete", "insert", "upsert", "push", "toast"}

\* C12: opening order: a stream subscribes only after its initial read and push
\* succeeded, and the initial read and push are not done on behalf of any event:
\* until the initial push is done the stream has no subscription, no message in its
\* channel and no message in hand.
C12_OpeningOrder ==
    \A t \in Streams :
        /\ (pc[t] = "subscribe" \/ subscribed[t] \/ obs[t].everSub) => obs[t].hasInit
        /\ (pc[t] \notin {"closed", "done"} /\ ~obs[t].hasInit) =>
                /\ loc[t].phase = "initial"
                /\ pc[t] \in DbStates \cup {"push"}
                /\ ~subscribed[t] /\ msgChan[t] = << >> /\ loc[t].msg = NoMsg

\* C12, its case: the stream has pushed the list and subscribed although no request
\* was ever made, so no event was ever published
C12_Witness ==
    /\ subscribed["t1"]
    /\ obs["t1"].hasInit
    /\ obs["t1"].initPush = resetMVC(NoMVC)
    /\ nops = 0

\* C13: within one stream the pushes are ordered: the stream is back at its select,
\* ready to take the next event, only when the refresh push and the toast push the
\* event in hand calls for are done; the toast push comes after the refresh push;
\* and an event with a toast gets its toast push whether or not it asks for a refresh.
C13_PushOrder ==
    \A t \in Streams :
        /\ pc[t] = "listen" => ~obs[t].owesRef /\ ~obs[t].owesToast
        /\ pc[t] = "toast" => ~obs[t].owesRef /\ obs[t].owesToast /\ loc[t].msg.Toast # ""
        /\ (pc[t] # "done" /\ (obs[t].owesRef \/ obs[t].owesToast)) => loc[t].phase = "refresh"
        /\ (pc[t] \in DbStates \cup {"push"} /\ loc[t].phase = "refresh") =>
                /\ obs[t].owesRef
                /\ obs[t].owesToast = (loc[t].msg.Toast # "")

\* C13, its case: the stream is at the toast push of an event that has a toast and no
\* refresh, while the next event, with refresh and toast, waits in the channel
C13_Witness ==
    /\ pc["t1"] = "toast"
    /\ ~loc["t1"].msg.RefreshTodos
    /\ msgChan["t1"] # << >>
    /\ Head(msgChan["t1"]).RefreshTodos
    /\ Head(msgChan["t1"]).Toast # ""

\* the publish numbers a stream has been handed: taken from its channel, or in it
Received(t) == { obs[t].got[i] : i \in DOMAIN obs[t].got } \cup
               { msgChan[t][i].id : i \in DOMAIN msgChan[t] }

\* C14: a publish on a session's subject reaches every stream subscribed to that
\* subject at that moment, once, and no other stream, then or later: what a stream
\* has been handed is exactly what was published on its subject while it was
\* subscribed, each publish once, and every message carries the stream's subject
C14_FanOut ==
    \A t \in Streams :
        /\ pc[t] # "done" => Received(t) = obs[t].due
        /\ Received(t) \subseteq obs[t].due
        /\ Len(obs[t].got) + Len(msgChan[t]) = Cardinality(Received(t))
        /\ \A i \in DOMAIN msgChan[t] : msgChan[t][i].subj = subject(SessionOf(t))
        /\ loc[t].msg # NoMsg => loc[t].msg.subj = subject(SessionOf(t))

\* the first publish, on s1, reached t1 and not t2, which subscribed later; the
\* second, on s2, reached t3 and neither stream of s1
C14_Witness ==
    /\ \A t \in Streams : subscribed[t]
    /\ obs["t1"].due = {1} /\ obs["t2"].due = {} /\ obs["t3"].due = {2}
    /\ obs["t1"].got = << 1 >> /\ msgChan["t3"] # << >>

\* C15: a publish that finds the channel of a subscriber full (64 messages) is
\* dropped for that subscriber and no one else: a channel never holds more than 64,
\* a stream has been handed every publish on its subject but the ones that found
\* its own channel full, each once, and Notify can be called whatever the channels hold
C15_FullBufferDropsForOne ==
    /\ \A t \in Streams :
            /\ Len(msgChan[t]) <= MsgChanCap
            /\ Received(t) = obs[t].due \ obs[t].fullAt
            /\ Len(obs[t].got) + Len(msgChan[t]) = Cardinality(Received(t))
    /\ ((\A t \in Streams : subscribed[t]) /\ nops < MaxPublishes) =>
            ENABLED NotifyCall("s1", << WithToast(ToastReset) >>, MaxPublishes)

\* t1 has lost a publish of its session that found its channel full; t2, whose
\* channel was not full, was handed it, and t3 a publish of the other session
C15_Witness ==
    /\ Len(msgChan["t1"]) = MsgChanCap /\ obs["t1"].fullAt # {}
    /\ Received("t2") = obs["t2"].due /\ obs["t1"].fullAt \subseteq Received("t2")
    /\ obs["t3"].due # {} /\ Received("t3") = obs["t3"].due

\* C16: after an event was dropped for a stream, the state the stream pushes on
\* the next refresh event it takes is the complete state of a save no older than
\* the save whose event was dropped, so that it includes that mutation and every
\* one persisted before it (no statement failing).
C16_RefreshAfterDrop ==
    failures = 0 =>
        \A t \in Streams :
            (obs[t].missedVer > 0 /\ obs[t].hasRef) =>
                \E k \in obs[t].missedVer..Len(hist[SessionOf(t)]) :
                    hist[SessionOf(t)][k] = obs[t].refPush

\* C17: every event Notify publishes asks for a refresh or carries a toast, whatever
\* the options it is called with: no message in a channel has neither
C17_NoEmptyEvent ==
    \A t \in Streams : \A i \in DOMAIN msgChan[t] :
        msgChan[t][i].RefreshTodos \/ msgChan[t][i].Toast # ""

\* the messages a stream holds: those in its channel and the one it works on
Held(t) == { msgChan[t][i] : i \in DOMAIN msgChan[t] } \cup
           (IF loc[t].phase = "refresh" THEN {loc[t].msg} ELSE {})

\* C18: a mutation whose save returned nil publishes exactly one event, on the
\* subject of its own session, with RefreshTodos set, and only after the save has
\* completed: a handler publishes at most once, has published once when it answers
\* after a completed save, and every message a stream holds asks for a refresh, is
\* on a handler's subject and names a save that had completed, no two of them the
\* same save
C18_OnePublishAfterPersist ==
    /\ \A h \in Handlers :
            /\ obs[h].npub <= 1
            /\ obs[h].npub = 1 => obs[h].hasSaved /\ pc[h] = "idle" /\ obs[h].resp = 200
            /\ (obs[h].hasSaved /\ pc[h] = "idle") => obs[h].npub = 1
            /\ obs[h].hasSaved =>
                    /\ pc[h] \in {"notify", "idle"}
                    /\ obs[h].ver \in 1..Len(hist[SessionOf(h)])
                    /\ hist[SessionOf(h)][obs[h].ver] = obs[h].saved
    /\ \A t \in Streams :
            /\ \A m \in Held(t) :
                    /\ m.RefreshTodos /\ m.persisted
                    /\ \E h \in Handlers : m.subj = subject(SessionOf(h))
                    /\ m.ver \in 1..Len(hist[SessionOf(t)])
            /\ \A i \in DOMAIN msgChan[t] : \A j \in DOMAIN msgChan[t] :
                    i < j => msgChan[t][i].ver < msgChan[t][j].ver
            /\ \A i \in DOMAIN msgChan[t] :
                    loc[t].phase = "refresh" => loc[t].msg.ver < msgChan[t][i].ver

\* a reset was saved and answered, and its one event, with the toast, is in the
\* channel of the subscribed stream
C18_Witness ==
    /\ pc["h1"] = "idle" /\ obs["h1"].hasSaved /\ obs["h1"].npub = 1
    /\ obs["h1"].saved = resetMVC(NoMVC)
    /\ Len(msgChan["t1"]) = 1
    /\ Head(msgChan["t1"]).Toast = ToastReset /\ Head(msgChan["t1"]).RefreshTodos

\* the parameters of op have the type the route asks for: idx is an integer, mode
\* is one of All, Active, Completed
WellTyped(op) ==
    /\ op.kind \in {"toggle", "startEdit", "edit", "delete", "mode"} => op.isInt
    /\ op.kind = "mode" => op.mode \in TodoViewModeAll..TodoViewModeCompleted

\* idx is a position the operation can act on in mvc: an item of the list, or, for
\* toggle, edit and delete, a negative number (all items, a new item, the completed ones)
ValidPosition(op, mvc) ==
    /\ op.kind \in {"toggle", "edit", "delete"} => op.idx < Len(mvc.Todos)
    /\ op.kind = "startEdit" => op.idx >= 0 /\ op.idx < Len(mvc.Todos)

\* C19: a request with malformed input is answered with an error before the store
\* is read or written, and nothing is published: a handler at work has well-typed
\* parameters, a handler that has loaded the list does not go on to save unless its
\* idx is a position in that list, and a request answered 400 has neither loaded,
\* saved nor published
C19_MalformedRejected ==
    \A h \in Handlers :
        /\ pc[h] # "idle" => WellTyped(loc[h].op)
        /\ (pc[h] = "delete" /\ obs[h].hasLoaded) => ValidPosition(loc[h].op, obs[h].loaded)
        /\ obs[h].resp = 400 =>
                pc[h] = "idle" /\ ~obs[h].hasLoaded /\ ~obs[h].hasSaved /\ obs[h].npub = 0

\* C20: the EditingIdx of every state a save has written is -1 or a position in
\* the Todos of that state
C20_EditingIdxValid ==
    \A s \in Sessions : \A k \in DOMAIN hist[s] :
        \/ hist[s][k].EditingIdx = -1
        \/ hist[s][k].EditingIdx \in 0..(Len(hist[s][k].Todos) - 1)

\* the call that led to this state: its kind, index, and the lists before and after
Called(k) == loc["h1"].op.kind = k
Idx == loc["h1"].op.idx
Before == obs["h1"].pre.Todos
After == loc["h1"].mvc.Todos

\* C21: toggle with a negative index sets every item to completed when one of them
\* was not, and every item to not completed when all were; texts, order and length
\* stay as they were
C21_ToggleAll ==
    (Called("toggle") /\ Idx < 0) =>
        /\ Len(After) = Len(Before)
        /\ \A k \in DOMAIN Before :
                /\ After[k].Text = Before[k].Text
                /\ After[k].Completed = (\E j \in DOMAIN Before : ~Before[j].Completed)

\* the second toggle-all in a row of a list that began as [true, false, false]:
\* all were completed after the first, none is after the second
C21_Witness ==
    /\ Called("toggle") /\ Idx < 0 /\ nops = 2
    /\ Len(Before) = 3 /\ \A k \in 1..3 : Before[k].Completed /\ ~After[k].Completed
    /\ Before[1].Text = 1 /\ Before[2].Text = 2 /\ Before[3].Text = 1

\* the position in Before of its k-th item that is not completed
KthIncomplete(k) ==
    CHOOSE p \in DOMAIN Before :
        /\ ~Before[p].Completed
        /\ Cardinality({ q \in 1..p : ~Before[q].Completed }) = k

\* C22: delete with a negative index leaves exactly the items that were not
\* completed, in the order they had: as many as there were, the k-th of them being
\* the k-th such item of the list before
C22_DeleteCompleted ==
    (Called("delete") /\ Idx < 0) =>
        /\ Len(After) = Cardinality({ q \in DOMAIN Before : ~Before[q].Completed })
        /\ \A k \in DOMAIN After : After[k] = Before[KthIncomplete(k)]

\* [true, false, true] became the single middle item
C22_Witness ==
    /\ Called("delete") /\ Idx < 0 /\ Len(Before) = 3
    /\ Before[1].Completed /\ ~Before[2].Completed /\ Before[3].Completed
    /\ After = << Before[2] >>

\* C23: delete with an index i that is a position removes the item at i and no
\* other: one item less, the items before i as they were, every later item one
\* position down
C23_DeleteAtIndex ==
    (Called("delete") /\ Idx >= 0 /\ Idx < Len(Before)) =>
        /\ Len(After) = Len(Before) - 1
        /\ \A k \in 1..Idx : After[k] = Before[k]
        /\ \A k \in (Idx + 1)..Len(After) : After[k] = Before[k + 1]

\* the middle one of three different items was deleted
C23_Witness ==
    /\ Called("delete") /\ Idx = 1 /\ Len(Before) = 3
    /\ Before[1] # Before[2] /\ Before[2] # Before[3] /\ Before[1] # Before[3]
    /\ After = << Before[1], Before[3] >>

\* C24: edit with an index that is a position replaces the text of that item and
\* nothing else; edit with a negative index appends one item with the text, not
\* completed; either way EditingIdx is -1 afterwards and Mode is as it was
C24_Edit ==
    Called("edit") =>
        /\ (Idx >= 0 /\ Idx < Len(Before)) =>
                /\ Len(After) = Len(Before)
                /\ \A k \in DOMAIN Before :
                        /\ After[k].Completed = Before[k].Completed
                        /\ After[k].Text = IF k = Idx + 1 THEN loc["h1"].op.text
                                           ELSE Before[k].Text
        /\ Idx < 0 =>
                /\ Len(After) = Len(Before) + 1
                /\ \A k \in DOMAIN Before : After[k] = Before[k]
                /\ After[Len(After)] = Todo(loc["h1"].op.text, FALSE)
        /\ loc["h1"].mvc.EditingIdx = -1
        /\ loc["h1"].mvc.Mode = obs["h1"].pre.Mode

\* the second call in a row appended a new item, not completed, to a list of two
\* whose last item was completed
C24_Witness ==
    /\ Called("edit") /\ Idx < 0 /\ nops = 2
    /\ Len(Before) = 2 /\ Len(After) = 3
    /\ Before[2].Text = MaxText /\ Before[2].Completed /\ Before[1].Text # MaxText
    /\ After[3] = Todo(MaxText, FALSE)

\* C25: a stream whose ChanSubscribe failed has returned: it never had a
\* subscription and never listened, it has written one error to the client and
\* has not unsubscribed, and from then on it does nothing at all
C25_SubscribeFailureCloses ==
    /\ [](\A t \in Streams :
            obs[t].subFailed =>
                /\ pc[t] = "done" /\ ~subscribed[t] /\ ~obs[t].everSub
                /\ obs[t].errs = 1 /\ obs[t].unsubs = 0
                /\ obs[t].hasInit /\ ~obs[t].hasRef)
    /\ [][\A t \in Streams :
            obs[t].subFailed => pc'[t] = pc[t] /\ obs'[t] = obs[t] /\ loc'[t] = loc[t]]_vars

\* the subscription of t1 failed after its first push, while the handler had a
\* mutation under way
C25_Witness ==
    /\ obs["t1"].subFailed /\ obs["t1"].initPush = resetMVC(NoMVC)
    /\ pc["h1"] = "notify"

\* C26: a stream whose write to its client failed has returned, and no other
\* stream is touched by it: every other stream that has subscribed still has its
\* subscription, is in its loop, and has been handed every publish on its subject
C26_PushFailureIsolated ==
    \A t \in Streams :
        obs[t].pushFailed =>
            /\ pc[t] = "done"
            /\ \A u \in Streams \ {t} :
                    obs[u].everSub =>
                        /\ subscribed[u] /\ pc[u] # "done"
                        /\ Received(u) = obs[u].due

\* C27: once the process shuts down every open stream is cancelled, and the store
\* and the relay connection are closed only when every stream has returned
C27_ReleaseAfterStreams ==
    /\ pc[Server] # "serving" =>
            \A t \in Streams : pc[t] \notin {"closed", "done"} => cancelled[t]
    /\ pc[Server] = "released" =>
            \A t \in Streams : pc[t] \in {"closed", "done"}

\* C28: the rows a load has read are rows of its own session, and whenever the
\* persisted state of a session changes, the step was taken by a handler or a
\* stream of that session
C28_SessionsIsolated ==
    /\ [](\A p \in Procs : \A i \in DOMAIN loc[p].dbTodos :
                loc[p].dbTodos[i].user_id = SessionOf(p))
    /\ [][\A s \in Sessions :
            Persisted(s)' # Persisted(s) =>
                \E p \in Procs :
                    SessionOf(p) = s /\ (pc'[p] # pc[p] \/ loc'[p] # loc[p])]_vars

\* the handler has saved a mutation of its session while the other session holds
\* the default todos its stream has seeded and pushed
C28_Witness ==
    /\ pc["h1"] = "notify" /\ Persisted("s1") = obs["h1"].saved
    /\ Persisted("s1").Todos # DefaultTodos
    /\ obs["t3"].hasInit /\ Persisted("s2") = resetMVC(NoMVC)

\* the options Notify was called with and the message it built
Given == loc["h1"].opts
Built == loc["h1"].msg

\* the toasts among the options given, in the order given
ToastsGiven == SelectSeq(Given, LAMBDA o : o.opt = "toast")

\* C29: the message Notify builds is determined by the options alone:
\* RefreshTodos is set exactly when WithRefresh is among them, however often and
\* wherever, and the toast is the (last) toast given or none; so refresh and one
\* toast give the same message in either order, and refresh twice is refresh once
C29_ComposerDeterministic ==
    nops > 0 =>
        /\ Built.RefreshTodos = (\E i \in DOMAIN Given : Given[i] = WithRefresh)
        /\ Built.Toast = IF ToastsGiven = << >> THEN ""
                         ELSE ToastsGiven[Len(ToastsGiven)].msg
        /\ Built = [NoMsg EXCEPT !.RefreshTodos = Built.RefreshTodos, !.Toast = Built.Toast]
        /\ \A m \in {ToastReset, ToastUpdated, ToastCreated, ToastDeleted} :
                Given \in { << WithRefresh, WithToast(m) >>, << WithToast(m), WithRefresh >> }
                    => Built = [NoMsg EXCEPT !.RefreshTodos = TRUE, !.Toast = m]
        /\ Given \in { << WithRefresh >>, << WithRefresh, WithRefresh >> }
                    => Built = [NoMsg EXCEPT !.RefreshTodos = TRUE]

\* the toast was given before the refresh, and the message has both
C29_Witness ==
    /\ nops > 0 /\ Given = << WithToast(ToastDeleted), WithRefresh >>
    /\ Built.RefreshTodos /\ Built.Toast = ToastDeleted

\* the modes of the view
ViewModes == TodoViewModeAll..TodoViewModeCompleted

\* C30: the Mode stored for a session, and so the Mode a load returns, is always
\* All, Active or Completed: every state ever saved has such a mode, a set-mode
\* request stores the mode it asks for only when that is in range, and a reset and
\* the seeding of an empty list store All
C30_ModeInRange ==
    /\ [](\A s \in Sessions :
              /\ sessions[s].valid => sessions[s].mode \in ViewModes
              /\ Persisted(s).Mode \in ViewModes
              /\ \A i \in DOMAIN hist[s] : hist[s][i].Mode \in ViewModes)
    /\ [][\A s \in Sessions :
            sessions'[s] # sessions[s] =>
                \E p \in Procs :
                    /\ pc[p] = "upsert" /\ loc[p].sid = s
                    /\ sessions'[s].valid
                    /\ (loc[p].seeding \/ loc[p].op.kind = "reset")
                            => sessions'[s].mode = TodoViewModeAll
                    /\ (~loc[p].seeding /\ loc[p].op.kind = "mode")
                            => /\ sessions'[s].mode = loc[p].op.mode
                               /\ loc[p].op.mode \in ViewModes
                    /\ sessions'[s].mode = loc[p].mvc.Mode]_vars

\* a set-mode request stored Completed, and the next one, asking for a mode beyond
\* Completed, was answered 400 and left it in place
C30_Witness ==
    /\ sessions["s1"].valid /\ sessions["s1"].mode = TodoViewModeCompleted
    /\ pc["h1"] = "idle" /\ obs["h1"].resp = 400
    /\ Len(hist["s1"]) = 2 /\ hist["s1"][1].Mode = TodoViewModeAll
    /\ sessions["s2"].valid /\ sessions["s2"].mode = TodoViewModeAll

\* C31: no row of the table, no state ever saved and no state a handler is about to
\* save has an item with empty text, and a request answered at once with 200 (a
\* save-edit with empty input) reads nothing, writes nothing and publishes nothing
C31_TextNonEmpty ==
    /\ [](/\ \A i \in DOMAIN todos : todos[i].task # 0
          /\ \A s \in Sessions : \A i \in DOMAIN hist[s] :
                \A k \in DOMAIN hist[s][i].Todos : hist[s][i].Todos[k].Text # 0
          /\ \A h \in Handlers :
                /\ loc[h].op.kind = "edit" => loc[h].op.text # 0
                /\ \A k \in DOMAIN loc[h].mvc.Todos : loc[h].mvc.Todos[k].Text # 0)
    /\ [][\A h \in Handlers :
            (pc[h] = "idle" /\ nops' # nops /\ obs'[h].resp = 200) =>
                /\ UNCHANGED << todos, sessions, hist, msgChan, pc, loc >>
                /\ ~obs'[h].hasLoaded /\ ~obs'[h].hasSaved /\ obs'[h].npub = 0]_vars

\* a text was saved as a new item, the stream pushed it, and the next request, with
\* an empty input, was answered 200 and left the table as it was
C31_Witness ==
    /\ pc["h1"] = "idle" /\ nops = 2
    /\ obs["h1"].resp = 200 /\ obs["h1"].npub = 0
    /\ Len(hist["s1"]) = 2 /\ Len(hist["s1"][2].Todos) = SeedLen + 1
    /\ Persisted("s1") = hist["s1"][2]
    /\ obs["t1"].hasRef /\ obs["t1"].refPush = hist["s1"][2]

\* the rows of the table as a call of WithinTransaction found them, as todos
Found(h) == obs[h].pre.Todos
\* the rows fn wrote through the transaction, as todos
Written(h) == RowsToTodos(loc[h].tx.writes)

C33_StreamReadsOnly ==
    \A t \in Streams :
        (pc[t] \in SaveStates /\ hist[SessionOf(t)] # << >>)
            => Persisted(SessionOf(t)) = obs[t].pre

\* C34: a mutation saved after a stream has done its initial read is not missed:
\* once the handler has saved version v and is about to publish, the stream, which
\* stays connected and whose buffer never fills, eventually pushes a state read
\* for an event of version v or later
C34_NoMutationMissed ==
    \A v \in 1..(2 * MaxOps + 2) :
        (/\ pc["h1"] = "notify" /\ obs["h1"].hasSaved /\ obs["h1"].ver = v
         /\ InitialReadDone("t1"))
            ~> (obs["t1"].hasRef /\ obs["t1"].refVer >= v)

\* C35: a session that has been saved is not seeded again: when the save of a
\* mutation left it with no item, the state a stream pushes for the event of
\* that save is the state saved, the empty list with the mode saved
C35_NoReseed ==
    \A h \in Handlers : \A t \in StreamsOf(SessionOf(h)) :
        (/\ obs[h].hasSaved /\ obs[h].saved.Todos = << >>
         /\ obs[t].hasRef /\ obs[t].refVer = obs[h].ver)
            => obs[t].refPush = obs[h].saved

\* C36: set-mode, start-edit and cancel-edit leave the item list as it was: when
\* the save of such a request has returned, a load returns the items the handler
\* loaded and saved back, with the same texts, completed flags and order
C36_ViewOpsKeepItems ==
    \A h \in Handlers :
        (pc[h] = "notify" /\ obs[h].hasSaved /\ loc[h].op.kind \in ViewKinds) =>
            LoadAlone(SessionOf(h)).Todos = obs[h].saved.Todos

\* the handler has loaded the list and holds an idx at or beyond its end
PastEnd(h) ==
    /\ loc[h].op.kind \in {"toggle", "edit", "delete"}
    /\ loc[h].op.idx >= Len(obs[h].loaded.Todos)

\* C37: a toggle, edit or delete whose idx is not negative and not below the
\* number of items leaves the list it loaded as it was (edit sets EditingIdx to
\* -1, toggle and delete change nothing at all); the handler goes on to save that
\* state, answers 200 and not an error, and publishes one event, a refresh
C37_PastEndIsSaved ==
    \A h \in Handlers :
        /\ (pc[h] = "delete" /\ obs[h].hasLoaded /\ PastEnd(h)) =>
                /\ loc[h].mvc.Todos = obs[h].loaded.Todos
                /\ loc[h].mvc.Mode = obs[h].loaded.Mode
                /\ loc[h].mvc.EditingIdx =
                        IF loc[h].op.kind = "edit" THEN -1 ELSE obs[h].loaded.EditingIdx
        /\ (pc[h] = "notify" /\ loc[h].op.idx >= Len(obs[h].saved.Todos)) =>
                /\ obs[h].hasSaved /\ obs[h].saved = loc[h].mvc
                /\ obs[h].ver \in DOMAIN hist[SessionOf(h)]
                /\ hist[SessionOf(h)][obs[h].ver] = obs[h].saved
        /\ (pc[h] = "idle" /\ obs[h].resp # 0) =>
                /\ obs[h].resp = 200 /\ obs[h].hasSaved /\ obs[h].npub = 1
                /\ \A t \in StreamsOf(SessionOf(h)) :
                        subscribed[t] =>
                            \/ \E i \in DOMAIN msgChan[t] :
                                    /\ msgChan[t][i].RefreshTodos
                                    /\ msgChan[t][i].ver = obs[h].ver
                            \/ /\ loc[t].msg.RefreshTodos
                               /\ loc[t].msg.ver = obs[h].ver
                            \/ obs[t].hasRef /\ obs[t].refVer = obs[h].ver

\* item 1 was being edited; an edit with an idx far beyond the end has been saved:
\* the same items, EditingIdx -1
C37_Witness ==
    /\ pc["h1"] = "notify" /\ loc["h1"].op.kind = "edit" /\ loc["h1"].op.idx = BeyondEnd
    /\ Len(hist["s1"]) = 3 /\ hist["s1"][2].EditingIdx = 1
    /\ hist["s1"][3] = [hist["s1"][2] EXCEPT !.EditingIdx = -1]
    /\ Persisted("s1") = hist["s1"][3]

\* the message at the head of the channel of t
NextMsg(t) == Head(msgChan[t])
\* t takes the message at the head of its channel
Takes(t) == msgChan[t] # << >> /\ msgChan'[t] = Tail(msgChan[t])

\* C38: an event whose payload does not parse leads to no store read and no push:
\* the stream is never at a read, a push or a toast for such an event, taking it
\* leaves the stream in its select loop with its subscription and changes nothing
\* but the channel, and the event after it, when it parses and asks for a
\* refresh, sends the stream to read the store
C38_UnparsableSkipped ==
    /\ [](\A t \in Streams :
              /\ ~loc[t].msg.malformed
              /\ (loc[t].phase = "refresh" /\ pc[t] \in DbStates \cup {"push"})
                    => loc[t].msg.RefreshTodos /\ obs[t].owesRef
              /\ obs[t].everSub => subscribed[t] /\ pc[t] \notin {"closed", "done"})
    /\ [][\A t \in Streams :
            /\ (Takes(t) /\ NextMsg(t).malformed) =>
                    /\ pc'[t] = "listen" /\ subscribed'[t]
                    /\ UNCHANGED << todos, sessions, hist, loc, pc >>
                    /\ obs'[t] = [obs[t] EXCEPT !.got = Append(@, NextMsg(t).id),
                                                !.parseErrs = @ + 1]
            /\ (Takes(t) /\ ~NextMsg(t).malformed /\ NextMsg(t).RefreshTodos) =>
                    /\ pc'[t] = "getTodos" /\ loc'[t].msg = NextMsg(t)
                    /\ obs'[t].owesRef]_vars

\* the stream has taken two events, one of them unparsable and skipped, and has
\* pushed the state for the refresh that came after it; it is back in its loop
C38_Witness ==
    /\ obs["t1"].got = << 1, 2 >> /\ obs["t1"].parseErrs = 1
    /\ obs["t1"].hasRef /\ obs["t1"].refPush = Persisted("s1")
    /\ pc["t1"] = "listen" /\ subscribed["t1"] /\ msgChan["t1"] = << >>

====
